---- MODULE Spec2Model ----
(***************************************************************************)
(* Model of ninnemana/drudge: the streaming response forwarder             *)
(* (stream.go), the lifecycle coordinator Run (server.go) and the protocol *)
(* router (server.go grpcWrapper, handler.go allowCORS).                   *)
(*                                                                         *)
(* Each component has its own specification:                               *)
(*   SpecStream   - one call of ForwardResponseStream                      *)
(*   SpecRun      - one call of Run and the goroutines it starts           *)
(*   SpecRouter   - requests served by the HTTP handler chain              *)
(*   SpecRegistry - goroutines registering metrics, a reader listing them  *)
(*   SpecChain    - one RPC through the server's interceptor chain         *)
(***************************************************************************)
EXTENDS Integers, Sequences, FiniteSets, TLC

VARIABLES
    fIn,      \* arguments of ForwardResponseStream: the writer (is it a Flusher, do
              \* its writes succeed), the context's metadata, the marshaler (does it
              \* marshal the buffer, an error chunk), opts and the stream recv reads
    fPc,      \* position of ForwardResponseStream: "start", "recv", "done"
    fIdx,     \* number of messages recv has returned so far
    chunks,   \* the accumulation buffer (stream.go:52)
    w,        \* the http.ResponseWriter: header, status, body, log of calls
    rIn,      \* Options of Run: the register callback, the RPC network kind, the handlers
    rPc,      \* position of Run's own goroutine
    rRet,     \* what Run returned: "none" (not yet), "nil", "err"
    ctxDone,  \* the context derived at server.go:96 is cancelled
    topCancelled, \* the caller cancelled the context it passed to Run
    rpcList,  \* the RPC listener: "none", "open"
    serveG,   \* the goroutine of server.go:145-147 running rpc.Serve
    closerG,  \* the goroutine of server.go:160-165 closing the loopback connection
    shutG,    \* the goroutine of server.go:190-196 shutting the HTTP server down
    conn,     \* the loopback client connection: "none", "open", "closed"
    http,     \* the HTTP server: "none", "listening", "shutting-down", "stopped"
    procAlive, \* FALSE once lg.Fatal has exited the process
    rLog,     \* the lifecycle events so far, in order
    rNet,     \* the endpoint the RPC listener is bound to and the endpoint the
              \* loopback client dials
    rtReq,    \* the inbound request the HTTP handler chain serves
    rtOut,    \* what serving it did: the handlers invoked, the headers set, the spans
    metrics,  \* RegistryHandler.metrics: is the map nil, and its entries
    mu,       \* RegistryHandler's sync.Mutex: "free" or the goroutine holding it
    reg,      \* per registering goroutine: position, the call's name and
              \* instrument, calls made, what its calls returned
    lst,      \* the goroutine serving the introspection handler
    regExit,  \* how the process ended: "none", "duplicate" (Fatal), "mapRace"
    regHist,  \* per name the number of stores; did two registration calls overlap
    chIn,     \* one RPC: how the server was built, the call kind, was an
              \* interceptor supplied, what the validator and the handler do
    chPc,     \* position of the invocation
    chStack,  \* the interceptors that called down and have not returned yet
    chLog,    \* the pre-call, handler and post-call events of the invocation
    chSent,   \* messages the streaming handler has sent so far
    chSpans,  \* spans started and ended by the interceptors of telemetry.go
    chRet,    \* what the caller received
    chLevel,  \* the level at which the zap interceptor logged the call, or "none"
    chArgs,   \* what the streaming handler was called with: the service value
              \* and the server stream
    msLast,   \* the last call of MeasureInt / MeasureFloat and the number of
              \* measurements recorded before it
    msCalls,  \* calls of MeasureInt / MeasureFloat so far
    recorded  \* the measurements the stats recorder received, in order

streamVars == <<fIn, fPc, fIdx, chunks, w>>

runVars == <<rIn, rPc, rRet, ctxDone, topCancelled, rpcList, serveG, closerG, shutG,
             conn, http, procAlive, rLog, rNet>>

routerVars == <<rtReq, rtOut>>

registryVars == <<metrics, mu, reg, lst, regExit, regHist>>

chainVars == <<chIn, chPc, chStack, chLog, chSent, chSpans, chRet, chLevel, chArgs>>

measureVars == <<msLast, msCalls, recorded>>

vars == <<fIn, fPc, fIdx, chunks, w,
          rIn, rPc, rRet, ctxDone, topCancelled, rpcList, serveG, closerG, shutG,
          conn, http, procAlive, rLog, rNet, rtReq, rtOut,
          metrics, mu, reg, lst, regExit, regHist,
          chIn, chPc, chStack, chLog, chSent, chSpans, chRet, chLevel, chArgs,
          msLast, msCalls, recorded>>

----------------------------------------------------------------------------
(* Bounds *)

MaxMsgs == 2
MaxCTLen == 3
MaxCalls == 3
MaxSent == 2
MaxTags == 2
MaxMeasures == 2

----------------------------------------------------------------------------
(* gRPC status codes (google.golang.org/grpc/codes) and the gateway's       *)
(* mapping to HTTP status codes.                                            *)

Unknown == 2

Codes == 1..16

\* runtime.HTTPStatusFromCode of grpc-gateway v1.11.3, called at stream.go:129,159
HTTPStatusFromCode(c) ==
    CASE c = 0  -> 200   \* OK
      [] c = 1  -> 408   \* Canceled
      [] c = 2  -> 500   \* Unknown
      [] c = 3  -> 400   \* InvalidArgument
      [] c = 4  -> 504   \* DeadlineExceeded
      [] c = 5  -> 404   \* NotFound
      [] c = 6  -> 409   \* AlreadyExists
      [] c = 7  -> 403   \* PermissionDenied
      [] c = 8  -> 429   \* ResourceExhausted
      [] c = 9  -> 400   \* FailedPrecondition
      [] c = 10 -> 409   \* Aborted
      [] c = 11 -> 400   \* OutOfRange
      [] c = 12 -> 501   \* Unimplemented
      [] c = 13 -> 500   \* Internal
      [] c = 14 -> 503   \* Unavailable
      [] c = 15 -> 500   \* DataLoss
      [] c = 16 -> 401   \* Unauthenticated
      [] OTHER  -> 500

\* http.StatusText, called at stream.go:166
StatusText(h) ==
    CASE h = 200 -> "OK"
      [] h = 400 -> "Bad Request"
      [] h = 401 -> "Unauthorized"
      [] h = 403 -> "Forbidden"
      [] h = 404 -> "Not Found"
      [] h = 408 -> "Request Timeout"
      [] h = 409 -> "Conflict"
      [] h = 429 -> "Too Many Requests"
      [] h = 500 -> "Internal Server Error"
      [] h = 501 -> "Not Implemented"
      [] h = 503 -> "Service Unavailable"
      [] h = 504 -> "Gateway Timeout"
      [] OTHER   -> ""

----------------------------------------------------------------------------
(* Values of the forwarder *)

Msgs == {"a", "b"}
NilMsg == "nil"

\* An error value: a gRPC status error (isStatus) or a plain Go error.
StatusErr(c, m) == [isStatus |-> TRUE, code |-> c, msg |-> m]
PlainErr(m) == [isStatus |-> FALSE, code |-> 0, msg |-> m]

EOF == "EOF"

\* What recv returns once the messages are exhausted: io.EOF or an error.
Terminals ==
    {[eof |-> TRUE, err |-> PlainErr(EOF)]}
    \cup {[eof |-> FALSE, err |-> StatusErr(c, "rpc failed")] : c \in Codes}
    \cup {[eof |-> FALSE, err |-> PlainErr("boom")]}

MsgSeqs == UNION {[1..n -> Msgs] : n \in 0..MaxMsgs}

\* A forward-response option: never fails, fails on the nil pre-call, or
\* fails on message "b".
OptKinds == {"ok", "failNil", "failB"}
OptSeqs == {<<>>, <<"ok">>, <<"failNil">>, <<"failB">>, <<"ok", "failB">>}
OptErr == StatusErr(3, "option failed")

\* Server metadata of the context: absent, or a header map key -> values.
NoMD == [present |-> FALSE, header |-> <<>>]
MDs == {NoMD}
       \cup {[present |-> TRUE, header |-> h] : h \in {<<>>, <<"1">>, <<"1", "2">>}}

\* One chunk of the body. kind "raw" is a bare message, "result" a message
\* wrapped as {"result": m}, "error" the envelope {"error": StreamError}.
RawChunk(m) ==
    [kind |-> "raw", msg |-> m, grpc |-> 0, http |-> 0, message |-> "", status |-> ""]
ResultChunk(m) ==
    [kind |-> "result", msg |-> m, grpc |-> 0, http |-> 0, message |-> "", status |-> ""]
ErrorChunk(g, h, m, s) ==
    [kind |-> "error", msg |-> NilMsg, grpc |-> g, http |-> h, message |-> m, status |-> s]

\* stream.go:137-177
RECURSIVE streamChunk(_, _, _)
streamChunk(result, hasErr, err) ==
    IF hasErr
    THEN LET grpcCode == IF err.isStatus THEN err.code ELSE Unknown
             httpCode == HTTPStatusFromCode(grpcCode)
         IN ErrorChunk(grpcCode, httpCode, err.msg, StatusText(httpCode))
    ELSE IF result = NilMsg
         THEN streamChunk(NilMsg, TRUE, PlainErr("empty response"))
         ELSE ResultChunk(result)

----------------------------------------------------------------------------
(* The response writer (net/http), as the forwarder drives it *)

NewWriter == [header |-> [k \in {"Content-Type", "X-Md"} |-> <<>>],
              status |-> 0,       \* 0: no status line sent yet
              body   |-> <<>>,    \* the writes that reached the body
              log    |-> <<>>]    \* the calls made, in order

\* A logged call other than Write; a Write logs the shape written and whether
\* the write succeeded.
Ev(op) == [op |-> op, shape |-> "", ok |-> TRUE]

HeaderAdd(wr, k, v) == [wr EXCEPT !.header[k] = Append(@, v)]
HeaderSet(wr, k, v) == [wr EXCEPT !.header[k] = <<v>>]

\* WriteHeader: the first status wins, a later call is superfluous and ignored.
WriteHeader(wr, code) ==
    [wr EXCEPT !.status = IF @ = 0 THEN code ELSE @,
               !.log = Append(@, Ev("writeHeader"))]

\* Write: sends the implicit 200 when no status was sent; the bytes reach the
\* body when the write succeeds (ok).
Write(wr, val, ok) ==
    [wr EXCEPT !.status = IF @ = 0 THEN 200 ELSE @,
               !.body = IF ok THEN Append(@, val) ELSE @,
               !.log = Append(@, [op |-> "write", shape |-> val.shape, ok |-> ok])]

Flush(wr) == [wr EXCEPT !.log = Append(@, Ev("flush"))]

\* What marshaler.Marshal produces: a JSON array for the slice of chunks
\* (stream.go:73), a JSON object for one chunk map (stream.go:118).
MarshalSlice(cs) == [shape |-> "array", elems |-> cs]
MarshalChunk(c) == [shape |-> "object", elems |-> <<c>>]
TextBody(c) == [shape |-> "text", elems |-> <<c>>]

\* http.Error (stream.go:30,38): plain-text body with the given status.
HttpError(wr, msg, code, ok) ==
    Write(WriteHeader(HeaderSet(wr, "Content-Type", "text/plain"), code),
          TextBody(ErrorChunk(Unknown, code, msg, StatusText(code))), ok)

\* runtime.HTTPError (stream.go:48): the gateway's unary error response.
RuntimeHTTPError(wr, err, ok) ==
    LET c == IF err.isStatus THEN err.code ELSE Unknown
    IN Write(WriteHeader(wr, HTTPStatusFromCode(c)),
             TextBody(ErrorChunk(c, HTTPStatusFromCode(c), err.msg,
                                 StatusText(HTTPStatusFromCode(c)))), ok)

----------------------------------------------------------------------------
(* ForwardResponseStream and its helpers, stream.go *)

\* stream.go:89-95: every value of the header metadata is added once.
RECURSIVE AddAll(_, _, _)
AddAll(wr, k, vs) ==
    IF vs = <<>> THEN wr ELSE AddAll(HeaderAdd(wr, k, Head(vs)), k, Tail(vs))

\* Faulty variant: the metadata headers are never copied to the response.
handleForwardResponseServerMetadata_Skipped(wr, md) == wr

handleForwardResponseServerMetadata(wr, md) ==
    [AddAll(wr, "X-Md", md.header) EXCEPT !.log = Append(@, Ev("metadata"))]

OptFails(kind, resp) ==
    \/ kind = "failNil" /\ resp = NilMsg
    \/ kind = "failB" /\ resp = "b"

\* Faulty variant: only the first option is called.
handleForwardResponseOptions_FirstOnly(resp, opts) ==
    Len(opts) > 0 /\ OptFails(opts[1], resp)

\* stream.go:97-115: TRUE when some option returns an error for resp.
handleForwardResponseOptions(resp, opts) ==
    \E i \in 1..Len(opts) : OptFails(opts[i], resp)

\* Faulty variant: the response status is 500 whatever the error's code.
handleForwardResponseStreamError_Always500(wr, err, mok, wok) ==
    IF ~mok
    THEN wr
    ELSE Write(WriteHeader(wr, 500),
               MarshalChunk(streamChunk(NilMsg, TRUE, err)), wok)

\* stream.go:117-135. mok: the error chunk marshals; wok: the write succeeds.
\* No Flush follows the write.
handleForwardResponseStreamError(wr, err, mok, wok) ==
    IF ~mok
    THEN wr
    ELSE LET code == IF err.isStatus THEN err.code ELSE Unknown
         IN Write(WriteHeader(wr, HTTPStatusFromCode(code)),
                  MarshalChunk(streamChunk(NilMsg, TRUE, err)), wok)

\* stream.go:27-50: the checks and header writes before the read loop.
FwdStart ==
    /\ fPc = "start"
    /\ LET wok == fIn.writeOk IN
        IF ~fIn.flusher
        THEN /\ w' = HttpError(w, "unexpected type of web server", 500, wok)
             /\ fPc' = "done"
        ELSE IF ~fIn.md.present
        THEN /\ w' = HttpError(w, "unexpected error", 500, wok)
             /\ fPc' = "done"
        ELSE LET w1 == handleForwardResponseServerMetadata(w, fIn.md)
                 w2 == HeaderSet(w1, "Content-Type", "application/json")
             IN IF handleForwardResponseOptions(NilMsg, fIn.opts)
                THEN /\ w' = RuntimeHTTPError(w2, OptErr, wok)
                     /\ fPc' = "done"
                ELSE /\ w' = w2
                     /\ fPc' = "recv"
    /\ UNCHANGED <<fIn, fIdx, chunks>>
    /\ UNCHANGED <<runVars, routerVars, registryVars, chainVars, measureVars>>

\* Faulty variant: the return after a failed option (stream.go:67) is missing, so the
\* loop goes on after the error chunk and the buffer is written after it.
FwdRecvMsg_NoReturn ==
    /\ fPc = "recv"
    /\ fIdx < Len(fIn.msgs)
    /\ LET resp == fIn.msgs[fIdx + 1]
           w1 == [w EXCEPT !.log = Append(@, Ev("recv"))]
       IN /\ fIdx' = fIdx + 1
          /\ w' = IF handleForwardResponseOptions(resp, fIn.opts)
                  THEN handleForwardResponseStreamError(w1, OptErr,
                                                        fIn.marshalErrOk, fIn.writeOk)
                  ELSE w1
          /\ chunks' = Append(chunks, RawChunk(resp))
          /\ UNCHANGED fPc
    /\ UNCHANGED fIn
    /\ UNCHANGED <<runVars, routerVars, registryVars, chainVars, measureVars>>

\* stream.go:55-70: recv returns the next message.
FwdRecvMsg ==
    /\ fPc = "recv"
    /\ fIdx < Len(fIn.msgs)
    /\ LET resp == fIn.msgs[fIdx + 1]
           w1 == [w EXCEPT !.log = Append(@, Ev("recv"))]
       IN /\ fIdx' = fIdx + 1
          /\ IF handleForwardResponseOptions(resp, fIn.opts)
             THEN /\ w' = handleForwardResponseStreamError(w1, OptErr,
                                                     fIn.marshalErrOk, fIn.writeOk)
                  /\ fPc' = "done"
                  /\ UNCHANGED chunks
             ELSE /\ w' = w1
                  /\ chunks' = Append(chunks, RawChunk(resp))
                  /\ UNCHANGED fPc
    /\ UNCHANGED fIn
    /\ UNCHANGED <<runVars, routerVars, registryVars, chainVars, measureVars>>

\* Faulty variant: the status is set after the buffer was written.
WriteBuffer_StatusAfterBody(wr, cs, mok, merrOk, wok) ==
    IF ~mok
    THEN handleForwardResponseStreamError(wr, PlainErr("marshal failed"), merrOk, wok)
    ELSE WriteHeader(Flush(Write(wr, MarshalSlice(cs), wok)), 200)

\* Faulty variant: the buffer is flushed whether the write succeeded or not.
WriteBuffer_FlushAlways(wr, cs, mok, merrOk, wok) ==
    IF ~mok
    THEN handleForwardResponseStreamError(wr, PlainErr("marshal failed"), merrOk, wok)
    ELSE Flush(Write(wr, MarshalSlice(cs), wok))

\* stream.go:73-86: what follows the loop. mok: the buffer marshals.
WriteBuffer(wr, cs, mok, merrOk, wok) ==
    IF ~mok
    THEN handleForwardResponseStreamError(wr, PlainErr("marshal failed"), merrOk, wok)
    ELSE IF ~wok
    THEN Write(wr, MarshalSlice(cs), FALSE)
    ELSE Flush(Write(wr, MarshalSlice(cs), TRUE))

\* stream.go:55-58,73-86: recv returns io.EOF; the buffer is written.
FwdRecvEOF ==
    /\ fPc = "recv"
    /\ fIdx = Len(fIn.msgs)
    /\ fIn.term.eof
    /\ w' = WriteBuffer([w EXCEPT !.log = Append(@, Ev("recv"))], chunks,
                        fIn.marshalOk, fIn.marshalErrOk, fIn.writeOk)
    /\ fPc' = "done"
    /\ UNCHANGED <<fIn, fIdx, chunks>>
    /\ UNCHANGED <<runVars, routerVars, registryVars, chainVars, measureVars>>

\* Faulty variant: the return after the error chunk (stream.go:62) is
\* missing, the loop calls recv again.
FwdRecvErr_ReadsOn ==
    /\ fPc = "recv"
    /\ fIdx = Len(fIn.msgs)
    /\ ~fIn.term.eof
    /\ w' = handleForwardResponseStreamError([w EXCEPT !.log = Append(@, Ev("recv"))],
                                             fIn.term.err, fIn.marshalErrOk, fIn.writeOk)
    /\ UNCHANGED <<fIn, fPc, fIdx, chunks>>
    /\ UNCHANGED <<runVars, routerVars, registryVars, chainVars, measureVars>>

\* stream.go:55-63: recv returns an error other than io.EOF.
FwdRecvErr ==
    /\ fPc = "recv"
    /\ fIdx = Len(fIn.msgs)
    /\ ~fIn.term.eof
    /\ w' = handleForwardResponseStreamError([w EXCEPT !.log = Append(@, Ev("recv"))],
                                             fIn.term.err, fIn.marshalErrOk, fIn.writeOk)
    /\ fPc' = "done"
    /\ UNCHANGED <<fIn, fIdx, chunks>>
    /\ UNCHANGED <<runVars, routerVars, registryVars, chainVars, measureVars>>

\* No request has arrived.
RouterIdle ==
    /\ rtReq = [protoMajor |-> 1, ctype |-> <<>>, method |-> "GET", origin |-> "",
                acrm |-> "", path |-> "/metrics", outcome |-> "ok"]
    /\ rtOut = [chain |-> "none", invoked |-> <<>>, restPath |-> FALSE,
                allowOrigin |-> "", allowHeaders |-> <<>>, allowMethods |-> <<>>,
                body |-> <<>>, panicked |-> FALSE, statusAttr |-> FALSE,
                spansStarted |-> 0, spansEnded |-> 0]

\* The goroutines that register metrics, the metric names and the two kinds
\* of measure (Int64Measure, Float64Measure).
Goroutines == {"g1", "g2"}
Names == {"m1", "m2"}
Kinds == {"int64", "float64"}

\* The zero value of RegistryHandler: a nil map, nothing registered.
EmptyMap == [n \in {} |-> "none"]
NoCall == [name |-> "m1", inst |-> [kind |-> "int64", name |-> "m1", call |-> <<"g1", 0>>]]
RegistryIdle ==
    /\ metrics = [isNil |-> TRUE, entries |-> EmptyMap]
    /\ mu = "free"
    /\ reg = [g \in Goroutines |-> [pc |-> "idle", cur |-> NoCall, calls |-> 0, ret |-> {}]]
    /\ lst = [pc |-> "idle", snap |-> EmptyMap, out |-> "none"]
    /\ regExit = "none"
    /\ regHist = [stores |-> [n \in Names |-> 0], overlapped |-> FALSE]

\* No RPC has arrived.
ChainIdle ==
    /\ chIn = [rev |-> "v1", kind |-> "unary", supplied |-> FALSE, usesSrv |-> TRUE,
               valid |-> TRUE, outcome |-> "ok", code |-> 0, msgs |-> 0]
    /\ chPc = "idle"
    /\ chStack = <<>>
    /\ chLog = <<>>
    /\ chSent = 0
    /\ chSpans = [started |-> 0, ended |-> 0]
    /\ chRet = "none"
    /\ chLevel = "none"
    /\ chArgs = [srv |-> "none", ss |-> "none"]

\* No measurement call was made.
NoMeasure == [kind |-> "none", handle |-> "nil", v |-> 0, tags |-> <<>>, before |-> 0]

MeasureIdle ==
    /\ msLast = NoMeasure
    /\ msCalls = 0
    /\ recorded = <<>>

\* An endpoint: transport kind and address. An address is a host and port
\* or the path of a socket.
Endpoint(network, addr) == [network |-> network, addr |-> addr]
NoEndpoint == Endpoint("none", "none")
NoNet == [listen |-> NoEndpoint, dial |-> NoEndpoint]

\* Run has not been called.
RunIdle ==
    /\ rIn = [onRegister |-> "ok", network |-> "tcp", addr |-> "host:port",
              handlerErr |-> FALSE, exporter |-> "none"]
    /\ rNet = NoNet
    /\ rPc = "start" /\ rRet = "none"
    /\ ctxDone = FALSE /\ topCancelled = FALSE
    /\ rpcList = "none" /\ serveG = "none" /\ closerG = "none" /\ shutG = "none"
    /\ conn = "none" /\ http = "none"
    /\ procAlive = TRUE
    /\ rLog = <<>>

\* ForwardResponseStream has not been called.
StreamIdle ==
    /\ fIn = [flusher |-> TRUE, md |-> NoMD, opts |-> <<>>, msgs |-> <<>>,
              term |-> [eof |-> TRUE, err |-> PlainErr(EOF)],
              marshalOk |-> TRUE, marshalErrOk |-> TRUE, writeOk |-> TRUE]
    /\ fPc = "start"
    /\ fIdx = 0
    /\ chunks = <<>>
    /\ w = NewWriter

StreamInit ==
    /\ fIn \in [flusher : BOOLEAN, md : MDs, opts : OptSeqs,
                 msgs : MsgSeqs, term : Terminals,
                 marshalOk : BOOLEAN, marshalErrOk : BOOLEAN, writeOk : BOOLEAN]
    /\ fPc = "start"
    /\ fIdx = 0
    /\ chunks = <<>>
    /\ w = NewWriter
    /\ RunIdle
    /\ RouterIdle
    /\ RegistryIdle
    /\ ChainIdle
    /\ MeasureIdle

StreamNext == FwdStart \/ FwdRecvMsg \/ FwdRecvEOF \/ FwdRecvErr

SpecStream == StreamInit /\ [][StreamNext]_vars

\* The goroutine that runs ForwardResponseStream keeps running.
FairSpecStream == SpecStream /\ WF_vars(StreamNext)

----------------------------------------------------------------------------
(* Properties of ForwardResponseStream *)

\* The chunks of the body, in the order written.
RECURSIVE BodyChunks(_)
BodyChunks(body) ==
    IF body = <<>> THEN <<>> ELSE Head(body).elems \o BodyChunks(Tail(body))

LogIdx(op) == {i \in 1..Len(w.log) : w.log[i].op = op}
\* Writes of a stream error chunk (the marshalled map of stream.go:118).
ErrChunkWrites == {i \in LogIdx("write") : w.log[i].shape = "object"}
\* Writes of any error body: a stream error chunk or an http.Error text.
ErrBodyWrites == {i \in LogIdx("write") : w.log[i].shape \in {"object", "text"}}

NoOptFails ==
    /\ ~handleForwardResponseOptions(NilMsg, fIn.opts)
    /\ \A i \in 1..Len(fIn.msgs) : ~handleForwardResponseOptions(fIn.msgs[i], fIn.opts)

\* The call ran with a flushing writer, metadata, a marshaler and a writer
\* that do not fail, and options that do not fail.
CleanCall ==
    /\ fIn.flusher /\ fIn.md.present /\ NoOptFails
    /\ fIn.marshalOk /\ fIn.marshalErrOk /\ fIn.writeOk

ResultChunks(msgs) == [i \in 1..Len(msgs) |-> ResultChunk(msgs[i])]

\* C2 (as claimed): a stream of k >= 1 messages followed by a clean
\* end-of-stream yields a body that is exactly the k chunks {"result": m_i},
\* in production order, with no error chunk.
C2_ResultChunksOnEOF ==
    (fPc = "done" /\ CleanCall /\ fIn.term.eof /\ Len(fIn.msgs) >= 1)
        => BodyChunks(w.body) = ResultChunks(fIn.msgs)

\* C3 (as claimed): a stream of k >= 1 messages followed by a terminal error
\* with RPC code c yields the k result chunks in order followed by exactly
\* one error chunk with grpc_code c and http_code map(c), and nothing after.
C3_ResultsThenErrorChunk ==
    (fPc = "done" /\ CleanCall /\ ~fIn.term.eof /\ fIn.term.err.isStatus
                 /\ Len(fIn.msgs) >= 1)
        => LET cs == BodyChunks(w.body)
               k == Len(fIn.msgs)
           IN /\ Len(cs) = k + 1
              /\ SubSeq(cs, 1, k) = ResultChunks(fIn.msgs)
              /\ cs[k + 1].kind = "error"
              /\ cs[k + 1].grpc = fIn.term.err.code
              /\ cs[k + 1].http = HTTPStatusFromCode(fIn.term.err.code)

\* C4 (as claimed): a stream of zero messages that ends without error yields
\* a single error chunk with message "empty response" and code Unknown.
C4_EmptyStreamIsError ==
    (fPc = "done" /\ CleanCall /\ fIn.term.eof /\ Len(fIn.msgs) = 0)
        => LET cs == BodyChunks(w.body)
           IN /\ Len(cs) = 1
              /\ cs[1].kind = "error"
              /\ cs[1].message = "empty response"
              /\ cs[1].grpc = Unknown

\* C5: in every execution at most one error chunk is written, and after an
\* error chunk (or any error body) was written nothing more is written.
C5_OneErrorChunkLast ==
    /\ Cardinality(ErrChunkWrites) <= 1
    /\ \A i \in ErrBodyWrites : \A j \in LogIdx("write") : j <= i

\* C5 witness: a finished call that read a message and then wrote its one
\* error chunk.
C5_Witness ==
    /\ fPc = "done"
    /\ fIdx >= 1
    /\ \E i \in ErrChunkWrites : w.log[i].ok
    /\ Len(w.body) = 1 /\ w.body[1].elems[1].kind = "error"

\* C6 (as claimed): every execution that writes bytes to the body issues an
\* explicit flush after its final write, on the normal path and on the
\* error-chunk path alike. (Stated for the calls that reach the read loop:
\* the writer is a Flusher and the metadata is present.)
C6_FlushAfterFinalWrite ==
    (fPc = "done" /\ LogIdx("recv") # {} /\ \E i \in LogIdx("write") : w.log[i].ok)
        => \E f \in LogIdx("flush") : \A i \in LogIdx("write") : i < f

\* C7 (as claimed): the headers derived from the stream's metadata are
\* written exactly once per response, before the first recv.
C7_MetadataOncePerResponse ==
    (fPc = "done" /\ fIn.md.present /\ fIn.md.header # <<>>)
        => /\ Cardinality(LogIdx("metadata")) = 1
           /\ w.header["X-Md"] = fIn.md.header
           /\ \A r \in LogIdx("recv") : \E m \in LogIdx("metadata") : m < r

\* C7 (amended): the metadata headers are written at most once; every recv
\* is preceded by that one write, which put exactly the metadata's values in
\* the response header; a call whose writer flushes and whose context
\* carries metadata writes them exactly once, and any other call writes
\* none and never reads from the stream.
C7_MetadataOnceBeforeRecv ==
    /\ Cardinality(LogIdx("metadata")) <= 1
    /\ \A r \in LogIdx("recv") : \E m \in LogIdx("metadata") : m < r
    /\ LogIdx("metadata") # {} => w.header["X-Md"] = fIn.md.header
    /\ (fPc # "start" /\ fIn.flusher /\ fIn.md.present)
          => Cardinality(LogIdx("metadata")) = 1
    /\ (fPc # "start" /\ ~(fIn.flusher /\ fIn.md.present))
          => LogIdx("metadata") = {} /\ LogIdx("recv") = {}

\* C7 witness: recv has been called twice after metadata with two header
\* values was written.
C7_Witness ==
    /\ Cardinality(LogIdx("recv")) >= 2
    /\ w.header["X-Md"] = <<"1", "2">>
    /\ Cardinality(LogIdx("metadata")) = 1

\* The error envelopes that reached the body.
Envelopes == {w.body[i].elems[1] : i \in {j \in 1..Len(w.body) : w.body[j].shape = "object"}}

\* C16: in every error envelope the forwarder writes, http_code is the fixed
\* RPC-to-HTTP mapping of grpc_code and http_status is the standard text of
\* http_code; an error without an RPC status (a plain recv error, a failed
\* marshal of the buffer) gets grpc_code Unknown and http_code 500, an error
\* with one keeps its code; the response status equals the http_code.
C16_EnvelopeCodesAgree ==
    \A c \in Envelopes :
        /\ c.kind = "error"
        /\ c.http = HTTPStatusFromCode(c.grpc)
        /\ c.status = StatusText(c.http)
        /\ w.status = c.http
        /\ (NoOptFails /\ (fIn.term.eof \/ ~fIn.term.err.isStatus))
              => (c.grpc = 2 /\ c.http = 500 /\ c.status = "Internal Server Error")
        /\ (NoOptFails /\ ~fIn.term.eof /\ fIn.term.err.isStatus)
              => c.grpc = fIn.term.err.code

\* C16 witness: recv failed with NOT_FOUND after one message and the
\* envelope with grpc_code 5, http_code 404 went out with status 404.
C16_Witness ==
    /\ fPc = "done"
    /\ fIdx = 1
    /\ NoOptFails /\ ~fIn.term.eof /\ fIn.term.err = StatusErr(5, "rpc failed")
    /\ w.status = 404
    /\ \E c \in Envelopes : c.grpc = 5 /\ c.http = 404 /\ c.status = "Not Found"

\* C25: when a write of the response body fails, ForwardResponseStream only
\* logs it: the failed write is its last call on the writer (no second
\* write, no new status, no flush) and the function has returned.
C25_WriteFailureOnlyLogged ==
    \A i \in LogIdx("write") :
        (~w.log[i].ok /\ w.log[i].shape \in {"array", "object"})
            => (i = Len(w.log) /\ fPc = "done")

\* C25 witness: two messages were read, the write of the buffer failed after
\* the implicit 200 and the function returned.
C25_Witness ==
    /\ fPc = "done" /\ fIdx = 2 /\ fIn.term.eof /\ fIn.marshalOk
    /\ ~fIn.writeOk
    /\ w.status = 200 /\ w.body = <<>>
    /\ w.log[Len(w.log)] = [op |-> "write", shape |-> "array", ok |-> FALSE]

\* The calls of recv so far.
RecvCalls == Cardinality(LogIdx("recv"))

\* C30: ForwardResponseStream stops reading at the first end-of-stream or
\* error: recv is called at most once more than the stream has messages and
\* never after it returned end-of-stream or an error, and on every finite
\* stream the function terminates.
C30_StopsAtFirstEnd ==
    /\ [](/\ fIdx <= Len(fIn.msgs)
          /\ RecvCalls <= Len(fIn.msgs) + 1
          /\ RecvCalls \in {fIdx, fIdx + 1}
          /\ RecvCalls = fIdx + 1 => (fIdx = Len(fIn.msgs) /\ fPc = "done"))
    /\ <>(fPc = "done")

\* C30 witness: after two messages recv returned an error; it was called
\* three times and the function has returned.
C30_Witness ==
    /\ fPc = "done" /\ fIdx = 2 /\ ~fIn.term.eof
    /\ RecvCalls = 3

\* C31: the HTTP status code is set at most once per response and never
\* after a write of the body, on every path: WriteHeader is called at most
\* once and every Write comes after it.
C31_StatusOnceBeforeBody ==
    /\ Cardinality(LogIdx("writeHeader")) <= 1
    /\ \A h \in LogIdx("writeHeader") : \A j \in LogIdx("write") : h < j

\* C31 witness: two messages were read, the buffer did not marshal, and the
\* error chunk went out after the one WriteHeader(500).
C31_Witness ==
    /\ fPc = "done" /\ fIdx = 2 /\ fIn.term.eof
    /\ ~fIn.marshalOk /\ fIn.marshalErrOk /\ fIn.writeOk
    /\ w.status = 500
    /\ Cardinality(LogIdx("writeHeader")) = 1
    /\ Len(w.body) = 1 /\ w.body[1].shape = "object"

\* Some option of the call returns an error for resp.
SomeOptFails(resp) == \E i \in 1..Len(fIn.opts) : OptFails(fIn.opts[i], resp)

\* The messages before the first one an option fails for, as buffered.
RawChunks(n) == [i \in 1..n |-> RawChunk(fIn.msgs[i])]

\* C38: when an option fails before the first message is read the error is
\* reported (runtime.HTTPError, status of the option's error) and recv is
\* never called; when an option fails for a message, that message is not
\* added to the buffer, the error chunk of the option's error is the one
\* thing written (when it marshals and the write succeeds) and recv is not
\* called again.
C38_OptionFailureStopsReading ==
    /\ (fPc # "start" /\ fIn.flusher /\ fIn.md.present /\ SomeOptFails(NilMsg))
          => /\ fPc = "done" /\ RecvCalls = 0 /\ chunks = <<>>
             /\ w.status = HTTPStatusFromCode(OptErr.code)
             /\ fIn.writeOk => (Len(w.body) = 1 /\ w.body[1].shape = "text"
                                /\ w.body[1].elems[1].grpc = OptErr.code)
    /\ \A k \in 1..fIdx :
          (/\ ~SomeOptFails(NilMsg)
           /\ SomeOptFails(fIn.msgs[k])
           /\ \A i \in 1..(k - 1) : ~SomeOptFails(fIn.msgs[i]))
             => /\ fPc = "done" /\ fIdx = k /\ RecvCalls = k
                /\ chunks = RawChunks(k - 1)
                /\ (fIn.marshalErrOk /\ fIn.writeOk)
                      => w.body = <<MarshalChunk(streamChunk(NilMsg, TRUE, OptErr))>>
                /\ ~fIn.marshalErrOk => w.body = <<>>

\* C38 witness: the second option failed for the second message, "b"; the
\* first message stays buffered and unwritten, the error chunk went out.
C38_Witness ==
    /\ fPc = "done" /\ fIdx = 2
    /\ fIn.opts = <<"ok", "failB">> /\ fIn.msgs = <<"a", "b">>
    /\ chunks = <<RawChunk("a")>>
    /\ RecvCalls = 2
    /\ Len(w.body) = 1 /\ w.body[1].elems[1].kind = "error"
    /\ w.body[1].elems[1].grpc = OptErr.code

----------------------------------------------------------------------------
(* Run, server.go:72-206, and the three goroutines it starts *)

\* Run returns ret; the deferred function of server.go:98-106 cancels the
\* derived context on every return path.
RunReturn(ret) ==
    /\ rPc' = "returned"
    /\ rRet' = ret
    /\ ctxDone' = TRUE

\* lg.Fatal logs and exits the process (zap's Fatal calls os.Exit(1)).
Fatal ==
    /\ procAlive' = FALSE
    /\ rLog' = Append(rLog, "fatal")

\* lg.Fatal after the event ev.
FatalAfter(ev) ==
    /\ procAlive' = FALSE
    /\ rLog' = rLog \o <<ev, "fatal">>

\* Faulty variant: the deferred function turns the recovered panic into an
\* error that Run returns.
RunRecover_Returns ==
    /\ RunReturn("err")
    /\ rLog' = Append(rLog, "recovered")
    /\ UNCHANGED procAlive

\* server.go:98-106 when Run's goroutine panics: the deferred function
\* cancels the context, recovers the panic and calls lg.Fatal.
RunRecover ==
    /\ ctxDone' = TRUE
    /\ FatalAfter("recovered")
    /\ rPc' = "exited"
    /\ UNCHANGED rRet

\* Faulty variant: the result of the register callback is not looked at.
RunRegister_IgnoreError ==
    /\ procAlive /\ rPc = "start"
    /\ IF rIn.onRegister = "panic"
       THEN RunRecover
       ELSE /\ rPc' = "listen"
            /\ UNCHANGED <<rRet, ctxDone, procAlive, rLog>>
    /\ UNCHANGED <<rIn, rNet, topCancelled, rpcList, serveG, closerG, shutG, conn, http>>
    /\ UNCHANGED <<streamVars, routerVars, registryVars, chainVars, measureVars>>

\* server.go:72-136: set-up and the register callback: it is missing
\* ("nil"), returns an error, returns nil, or panics. The exporter and the
\* provider of lines 83-94 are built from fixed options.
RunRegister ==
    /\ procAlive /\ rPc = "start"
    /\ IF rIn.onRegister = "panic"
       THEN RunRecover
       ELSE /\ IF rIn.onRegister = "ok"
               THEN rPc' = "listen" /\ UNCHANGED <<rRet, ctxDone>>
               ELSE RunReturn("err")
            /\ UNCHANGED <<procAlive, rLog>>
    /\ UNCHANGED <<rIn, rNet, topCancelled, rpcList, serveG, closerG, shutG, conn, http>>
    /\ UNCHANGED <<streamVars, routerVars, registryVars, chainVars, measureVars>>

\* Faulty variant: the error of net.Listen (server.go:139-141) is not
\* returned, Run goes on to dial.
RunListen_IgnoreError ==
    /\ procAlive /\ rPc = "listen"
    /\ \E ok \in (IF rIn.addr = "host:port" THEN BOOLEAN ELSE {FALSE}) :
         /\ rpcList' = IF ok THEN "open" ELSE rpcList
         /\ rNet' = IF ok THEN [rNet EXCEPT !.listen = Endpoint("tcp", rIn.addr)]
                   ELSE rNet
         /\ serveG' = "spawned"
         /\ rLog' = Append(rLog, IF ok THEN "rpcListen" ELSE "rpcListenFail")
         /\ rPc' = "dial"
         /\ UNCHANGED <<rRet, ctxDone>>
    /\ UNCHANGED <<rIn, topCancelled, closerG, shutG, conn, http, procAlive>>
    /\ UNCHANGED <<streamVars, routerVars, registryVars, chainVars, measureVars>>

\* server.go:138-147: open the RPC listener, net.Listen("tcp", opts.RPC.Addr),
\* and start the goroutine that serves it. Listening on tcp fails for an
\* address that is not host:port.
RunListen ==
    /\ procAlive /\ rPc = "listen"
    /\ \E ok \in (IF rIn.addr = "host:port" THEN BOOLEAN ELSE {FALSE}) :
         IF ok
         THEN /\ rpcList' = "open"
              /\ rNet' = [rNet EXCEPT !.listen = Endpoint("tcp", rIn.addr)]
              /\ serveG' = "spawned"
              /\ rLog' = Append(rLog, "rpcListen")
              /\ rPc' = "dial"
              /\ UNCHANGED <<rRet, ctxDone>>
         ELSE /\ rLog' = Append(rLog, "rpcListenFail")
              /\ RunReturn("err")
              /\ UNCHANGED <<rpcList, serveG, rNet>>
    /\ UNCHANGED <<rIn, topCancelled, closerG, shutG, conn, http, procAlive>>
    /\ UNCHANGED <<streamVars, routerVars, registryVars, chainVars, measureVars>>

\* Faulty variant: dial takes every transport kind.
DialSupported_Any(network) == network \in {"tcp", "unix", "udp"}

\* dial.go:19-28 (unnamed/part_007): the transport kinds dial supports.
DialSupported(network) == network \in {"tcp", "unix"}

\* Faulty variant: the error of dial (server.go:156-158) is not returned, Run goes
\* on to build the gateway and the HTTP server.
RunDial_IgnoreError ==
    /\ procAlive /\ rPc = "dial"
    /\ \E ok \in (IF ctxDone \/ ~DialSupported(rIn.network) THEN {FALSE} ELSE BOOLEAN) :
         /\ conn' = IF ok THEN "open" ELSE conn
         /\ rNet' = IF ok THEN [rNet EXCEPT !.dial = Endpoint(rIn.network, rIn.addr)]
                   ELSE rNet
         /\ closerG' = "waiting"
         /\ rLog' = Append(rLog, IF ok THEN "dial" ELSE "dialFail")
         /\ rPc' = "gateway"
         /\ UNCHANGED <<rRet, ctxDone>>
    /\ UNCHANGED <<rIn, topCancelled, rpcList, serveG, shutG, http, procAlive>>
    /\ UNCHANGED <<streamVars, routerVars, registryVars, chainVars, measureVars>>

\* server.go:155-165: dial the loopback connection and start the goroutine
\* that closes it. grpc.DialContext fails when its context is already done.
RunDial ==
    /\ procAlive /\ rPc = "dial"
    /\ IF ~DialSupported(rIn.network)
       THEN /\ rLog' = Append(rLog, "dialUnsupported")
            /\ RunReturn("err")
            /\ UNCHANGED <<conn, closerG, rNet>>
       ELSE \E ok \in (IF ctxDone THEN {FALSE} ELSE BOOLEAN) :
              IF ok
              THEN /\ conn' = "open"
                   /\ rNet' = [rNet EXCEPT !.dial = Endpoint(rIn.network, rIn.addr)]
                   /\ closerG' = "waiting"
                   /\ rLog' = Append(rLog, "dial")
                   /\ rPc' = "gateway"
                   /\ UNCHANGED <<rRet, ctxDone>>
              ELSE /\ rLog' = Append(rLog, "dialFail")
                   /\ RunReturn("err")
                   /\ UNCHANGED <<conn, closerG, rNet>>
    /\ UNCHANGED <<rIn, topCancelled, rpcList, serveG, shutG, http, procAlive>>
    /\ UNCHANGED <<streamVars, routerVars, registryVars, chainVars, measureVars>>

\* server.go:167-196: build the gateway (dial.go newGateway), the mux and the
\* http.Server, and start the goroutine that shuts the server down.
RunGateway ==
    /\ procAlive /\ rPc = "gateway"
    /\ IF rIn.handlerErr
       THEN /\ RunReturn("err")
            /\ UNCHANGED <<http, shutG>>
       ELSE /\ http' = "new"
            /\ shutG' = "waiting"
            /\ rPc' = "listenAndServe"
            /\ UNCHANGED <<rRet, ctxDone>>
    /\ UNCHANGED <<rIn, rNet, topCancelled, rpcList, serveG, closerG, conn, procAlive, rLog>>
    /\ UNCHANGED <<streamVars, routerVars, registryVars, chainVars, measureVars>>

\* server.go:198-203: s.ListenAndServe. A server already shut down returns
\* http.ErrServerClosed at once; a failed listen is logged with lg.Fatal.
RunListenAndServe ==
    /\ procAlive /\ rPc = "listenAndServe"
    /\ IF http \in {"shutting-down", "stopped"}
       THEN /\ RunReturn("nil")
            /\ UNCHANGED <<http, procAlive, rLog>>
       ELSE \E ok \in BOOLEAN :
              IF ok
              THEN /\ http' = "listening"
                   /\ rLog' = Append(rLog, "httpListen")
                   /\ rPc' = "serving"
                   /\ UNCHANGED <<rRet, ctxDone, procAlive>>
              ELSE /\ FatalAfter("httpListenFail")
                   /\ UNCHANGED <<rPc, rRet, ctxDone, http>>
    /\ UNCHANGED <<rIn, rNet, topCancelled, rpcList, serveG, closerG, shutG, conn>>
    /\ UNCHANGED <<streamVars, routerVars, registryVars, chainVars, measureVars>>

\* server.go:200-205: Shutdown closed the listeners, ListenAndServe returns
\* http.ErrServerClosed and Run returns nil.
RunServeReturn ==
    /\ procAlive /\ rPc = "serving"
    /\ http \in {"shutting-down", "stopped"}
    /\ RunReturn("nil")
    /\ UNCHANGED <<rIn, rNet, topCancelled, rpcList, serveG, closerG, shutG, conn, http,
                   procAlive, rLog>>
    /\ UNCHANGED <<streamVars, routerVars, registryVars, chainVars, measureVars>>

\* server.go:200-202: the HTTP serve loop fails on its own (an accept
\* error); the error is not ErrServerClosed and lg.Fatal exits.
HttpServeFail ==
    /\ procAlive /\ rPc = "serving"
    /\ http = "listening"
    /\ Fatal
    /\ UNCHANGED <<rIn, rNet, rPc, rRet, ctxDone, topCancelled, rpcList, serveG, closerG,
                   shutG, conn, http>>
    /\ UNCHANGED <<streamVars, routerVars, registryVars, chainVars, measureVars>>

\* The caller cancels the context it passed to Run; the derived context of
\* server.go:96 is cancelled with it.
CancelTop ==
    /\ procAlive /\ ~topCancelled
    /\ topCancelled' = TRUE
    /\ ctxDone' = TRUE
    /\ rLog' = Append(rLog, "cancel")
    /\ UNCHANGED <<rIn, rNet, rPc, rRet, rpcList, serveG, closerG, shutG, conn, http,
                   procAlive>>
    /\ UNCHANGED <<streamVars, routerVars, registryVars, chainVars, measureVars>>

\* server.go:145-147: the goroutine enters rpc.Serve.
RpcServeStart ==
    /\ procAlive /\ serveG = "spawned"
    /\ serveG' = "serving"
    /\ UNCHANGED <<rIn, rNet, rPc, rRet, ctxDone, topCancelled, rpcList, closerG, shutG,
                   conn, http, procAlive, rLog>>
    /\ UNCHANGED <<streamVars, routerVars, registryVars, chainVars, measureVars>>

\* server.go:146: rpc.Serve returns (the listener failed; nothing in Run
\* stops the server) and lg.Fatal exits the process.
RpcServeFail ==
    /\ procAlive /\ serveG = "serving"
    /\ Fatal
    /\ UNCHANGED <<rIn, rNet, rPc, rRet, ctxDone, topCancelled, rpcList, serveG, closerG,
                   shutG, conn, http>>
    /\ UNCHANGED <<streamVars, routerVars, registryVars, chainVars, measureVars>>

\* server.go:160-165: once the context is done, close the loopback
\* connection. Close fails only on a connection already closed, and this is
\* its only caller.
CloserRun ==
    /\ procAlive /\ closerG = "waiting"
    /\ ctxDone
    /\ conn' = "closed"
    /\ closerG' = "done"
    /\ rLog' = Append(rLog, "connClose")
    /\ UNCHANGED <<rIn, rNet, rPc, rRet, ctxDone, topCancelled, rpcList, serveG, shutG,
                   http, procAlive>>
    /\ UNCHANGED <<streamVars, routerVars, registryVars, chainVars, measureVars>>

\* Faulty variant: the goroutine ends without calling s.Shutdown.
ShutdownBegin_NoShutdown ==
    /\ procAlive /\ shutG = "waiting"
    /\ ctxDone
    /\ shutG' = "done"
    /\ UNCHANGED <<rIn, rNet, rPc, rRet, ctxDone, topCancelled, rpcList, serveG, closerG,
                   conn, http, procAlive, rLog>>
    /\ UNCHANGED <<streamVars, routerVars, registryVars, chainVars, measureVars>>

\* server.go:190-193: once the context is done, call s.Shutdown, which
\* closes the listeners at once.
ShutdownBegin ==
    /\ procAlive /\ shutG = "waiting"
    /\ ctxDone
    /\ http' = "shutting-down"
    /\ shutG' = "shutting"
    /\ rLog' = Append(rLog, "httpShutdown")
    /\ UNCHANGED <<rIn, rNet, rPc, rRet, ctxDone, topCancelled, rpcList, serveG, closerG,
                   conn, procAlive>>
    /\ UNCHANGED <<streamVars, routerVars, registryVars, chainVars, measureVars>>

\* server.go:193-195: s.Shutdown returns once the connections are idle; an
\* error is logged with lg.Fatal.
ShutdownEnd ==
    /\ procAlive /\ shutG = "shutting"
    /\ \E ok \in BOOLEAN :
         IF ok
         THEN /\ http' = "stopped"
              /\ shutG' = "done"
              /\ rLog' = Append(rLog, "httpStopped")
              /\ UNCHANGED procAlive
         ELSE /\ Fatal
              /\ UNCHANGED <<http, shutG>>
    /\ UNCHANGED <<rIn, rNet, rPc, rRet, ctxDone, topCancelled, rpcList, serveG, closerG, conn>>
    /\ UNCHANGED <<streamVars, routerVars, registryVars, chainVars, measureVars>>

RunInit ==
    /\ rIn \in [onRegister : {"nil", "err", "ok", "panic"},
                 network : {"tcp", "unix", "udp"},
                 addr : {"host:port", "/path"},
                 handlerErr : BOOLEAN,
                 exporter : {"none"}]
    /\ rNet = NoNet
    /\ rPc = "start" /\ rRet = "none"
    /\ ctxDone = FALSE /\ topCancelled = FALSE
    /\ rpcList = "none" /\ serveG = "none" /\ closerG = "none" /\ shutG = "none"
    /\ conn = "none" /\ http = "none"
    /\ procAlive = TRUE
    /\ rLog = <<>>
    /\ StreamIdle
    /\ RouterIdle
    /\ RegistryIdle
    /\ ChainIdle
    /\ MeasureIdle

\* The steps of Run and of its goroutines.
RunProgramNext ==
    \/ RunRegister \/ RunListen \/ RunDial \/ RunGateway \/ RunListenAndServe
    \/ RunServeReturn \/ RpcServeStart \/ CloserRun \/ ShutdownBegin \/ ShutdownEnd

\* The steps of the environment: the caller's cancel, a serve loop failing.
RunEnvNext == CancelTop \/ HttpServeFail \/ RpcServeFail

RunNext == RunProgramNext \/ RunEnvNext

SpecRun == RunInit /\ [][RunNext]_vars

\* Every goroutine that can take a step eventually takes it.
FairSpecRun ==
    /\ SpecRun
    /\ WF_vars(RunRegister) /\ WF_vars(RunListen) /\ WF_vars(RunDial)
    /\ WF_vars(RunGateway) /\ WF_vars(RunListenAndServe) /\ WF_vars(RunServeReturn)
    /\ WF_vars(RpcServeStart) /\ WF_vars(CloserRun)
    /\ WF_vars(ShutdownBegin) /\ WF_vars(ShutdownEnd)

----------------------------------------------------------------------------
(* Run with an optional trace exporter, server.go:283-414. Its goroutines    *)
(* (server.go:353-355, 368-373, 398-404) are those of the other Run.         *)

\* Run goes on to the step pc.
RunV2Go(pc, log) ==
    /\ rPc' = pc
    /\ rLog' = log
    /\ UNCHANGED <<rRet, ctxDone, procAlive>>

\* A return statement of Run after the defer of server.go:307-314: the
\* deferred function calls cancel() and then flush(). flush is the nil
\* func value when no exporter is configured (server.go:294-296); calling
\* it panics inside the deferred function, before its recover() is reached,
\* and the panic leaves Run in the place of the return value. The process
\* ends unless the caller of Run recovers.
RunV2Return(ret, log) ==
    /\ ctxDone' = TRUE
    /\ IF rIn.exporter = "none"
       THEN /\ rPc' = "panicked"
            /\ rRet' = rRet
            /\ rLog' = Append(log, "nilFlushPanic")
            /\ procAlive' \in BOOLEAN
       ELSE /\ rPc' = "returned"
            /\ rRet' = ret
            /\ rLog' = Append(log, "flush")
            /\ procAlive' = procAlive

\* server.go:294-303: the exporter is optional; when it is configured and
\* fails Run returns its error, before the defer.
RunV2Exporter ==
    /\ procAlive /\ rPc = "exporter"
    /\ IF rIn.exporter = "err"
       THEN /\ rPc' = "returned"
            /\ rRet' = "err"
            /\ UNCHANGED <<ctxDone, procAlive, rLog>>
       ELSE RunV2Go("start", rLog)
    /\ UNCHANGED <<rIn, rNet, topCancelled, rpcList, serveG, closerG, shutG, conn, http>>
    /\ UNCHANGED <<streamVars, routerVars, registryVars, chainVars, measureVars>>

\* server.go:334-340
RunV2Register ==
    /\ procAlive /\ rPc = "start"
    /\ IF rIn.onRegister = "ok"
       THEN RunV2Go("listen", rLog)
       ELSE RunV2Return("err", rLog)
    /\ UNCHANGED <<rIn, rNet, topCancelled, rpcList, serveG, closerG, shutG, conn, http>>
    /\ UNCHANGED <<streamVars, routerVars, registryVars, chainVars, measureVars>>

\* server.go:346-355
RunV2Listen ==
    /\ procAlive /\ rPc = "listen"
    /\ \E ok \in (IF rIn.addr = "host:port" THEN BOOLEAN ELSE {FALSE}) :
         IF ok
         THEN /\ rpcList' = "open"
              /\ rNet' = [rNet EXCEPT !.listen = Endpoint("tcp", rIn.addr)]
              /\ serveG' = "spawned"
              /\ RunV2Go("dial", Append(rLog, "rpcListen"))
         ELSE /\ RunV2Return("err", Append(rLog, "rpcListenFail"))
              /\ UNCHANGED <<rpcList, serveG, rNet>>
    /\ UNCHANGED <<rIn, topCancelled, closerG, shutG, conn, http>>
    /\ UNCHANGED <<streamVars, routerVars, registryVars, chainVars, measureVars>>

\* server.go:363-373
RunV2Dial ==
    /\ procAlive /\ rPc = "dial"
    /\ IF ~DialSupported(rIn.network)
       THEN /\ RunV2Return("err", Append(rLog, "dialUnsupported"))
            /\ UNCHANGED <<conn, closerG, rNet>>
       ELSE \E ok \in (IF ctxDone THEN {FALSE} ELSE BOOLEAN) :
              IF ok
              THEN /\ conn' = "open"
                   /\ rNet' = [rNet EXCEPT !.dial = Endpoint(rIn.network, rIn.addr)]
                   /\ closerG' = "waiting"
                   /\ RunV2Go("gateway", Append(rLog, "dial"))
              ELSE /\ RunV2Return("err", Append(rLog, "dialFail"))
                   /\ UNCHANGED <<conn, closerG, rNet>>
    /\ UNCHANGED <<rIn, topCancelled, rpcList, serveG, shutG, http>>
    /\ UNCHANGED <<streamVars, routerVars, registryVars, chainVars, measureVars>>

\* server.go:375-404
RunV2Gateway ==
    /\ procAlive /\ rPc = "gateway"
    /\ IF rIn.handlerErr
       THEN /\ RunV2Return("err", rLog)
            /\ UNCHANGED <<http, shutG>>
       ELSE /\ http' = "new"
            /\ shutG' = "waiting"
            /\ RunV2Go("listenAndServe", rLog)
    /\ UNCHANGED <<rIn, rNet, topCancelled, rpcList, serveG, closerG, conn>>
    /\ UNCHANGED <<streamVars, routerVars, registryVars, chainVars, measureVars>>

\* server.go:408-411
RunV2ListenAndServe ==
    /\ procAlive /\ rPc = "listenAndServe"
    /\ IF http \in {"shutting-down", "stopped"}
       THEN /\ RunV2Return("nil", rLog)
            /\ UNCHANGED http
       ELSE \E ok \in BOOLEAN :
              IF ok
              THEN /\ http' = "listening"
                   /\ RunV2Go("serving", Append(rLog, "httpListen"))
              ELSE /\ FatalAfter("httpListenFail")
                   /\ UNCHANGED <<rPc, rRet, ctxDone, http>>
    /\ UNCHANGED <<rIn, rNet, topCancelled, rpcList, serveG, closerG, shutG, conn>>
    /\ UNCHANGED <<streamVars, routerVars, registryVars, chainVars, measureVars>>

\* server.go:408-413
RunV2ServeReturn ==
    /\ procAlive /\ rPc = "serving"
    /\ http \in {"shutting-down", "stopped"}
    /\ RunV2Return("nil", rLog)
    /\ UNCHANGED <<rIn, rNet, topCancelled, rpcList, serveG, closerG, shutG, conn, http>>
    /\ UNCHANGED <<streamVars, routerVars, registryVars, chainVars, measureVars>>

RunV2Init ==
    /\ rIn \in [onRegister : {"nil", "err", "ok"},
                 network : {"tcp", "unix", "udp"},
                 addr : {"host:port", "/path"},
                 handlerErr : BOOLEAN,
                 exporter : {"none", "ok", "err"}]
    /\ rNet = NoNet
    /\ rPc = "exporter" /\ rRet = "none"
    /\ ctxDone = FALSE /\ topCancelled = FALSE
    /\ rpcList = "none" /\ serveG = "none" /\ closerG = "none" /\ shutG = "none"
    /\ conn = "none" /\ http = "none"
    /\ procAlive = TRUE
    /\ rLog = <<>>
    /\ StreamIdle
    /\ RouterIdle
    /\ RegistryIdle
    /\ ChainIdle
    /\ MeasureIdle

RunV2Next ==
    \/ RunV2Exporter \/ RunV2Register \/ RunV2Listen \/ RunV2Dial \/ RunV2Gateway
    \/ RunV2ListenAndServe \/ RunV2ServeReturn
    \/ RpcServeStart \/ CloserRun \/ ShutdownBegin \/ ShutdownEnd
    \/ CancelTop \/ HttpServeFail \/ RpcServeFail

SpecRunV2 == RunV2Init /\ [][RunV2Next]_vars

----------------------------------------------------------------------------
(* Properties of Run *)

Pos(e) == {i \in 1..Len(rLog) : rLog[i] = e}
\* Every event b of the log has an event a before it.
Before(a, b) == \A j \in Pos(b) : \E i \in Pos(a) : i < j

\* The caller cancelled while the HTTP server was listening.
CancelledWhileServing == \E c \in Pos("cancel") : \E l \in Pos("httpListen") : l < c

\* C1 (as claimed): after the top-level context is cancelled, the HTTP
\* server's graceful shutdown is requested before the loopback connection is
\* closed, and the connection is closed before the RPC serve loop stops, in
\* every interleaving.
C1_ShutdownBeforeCloseBeforeStop ==
    CancelledWhileServing
        => /\ Before("httpShutdown", "connClose")
           /\ (serveG = "stopped" => conn = "closed")

\* C8: the RPC listener is opened before the loopback client dials; the HTTP
\* server starts listening only after the dial succeeded; it never listens in
\* an execution where the RPC listen or the dial failed.
C8_StartupOrder ==
    /\ Before("rpcListen", "dial")
    /\ Before("rpcListen", "dialFail")
    /\ Before("rpcListen", "dialUnsupported")
    /\ (conn # "none" => rpcList = "open")
    /\ Before("dial", "httpListen")
    /\ (http = "listening" => Pos("dial") # {})
    /\ (Pos("rpcListenFail") \cup Pos("dialFail") \cup Pos("dialUnsupported") # {})
          => (Pos("httpListen") = {} /\ http = "none")

\* C8 witness: the HTTP server is listening, after the listener was opened
\* and the dial succeeded.
C8_Witness ==
    /\ http = "listening"
    /\ rLog = <<"rpcListen", "dial", "httpListen">>

\* All three sub-servers are down: the process has exited, or each of the
\* HTTP server, the loopback connection and the RPC serve loop has stopped
\* (or was never started).
AllStopped ==
    \/ ~procAlive
    \/ /\ http \in {"none", "stopped"}
       /\ conn \in {"none", "closed"}
       /\ serveG \in {"none", "stopped"}

\* C9 (as claimed): after the top-level context is cancelled all three
\* sub-servers eventually reach the stopped state. Stated on the runs that
\* have come to rest: once the context was cancelled while the HTTP server
\* was listening and neither Run nor any of its goroutines has a step left
\* to take, all three are stopped.
C9_AllTornDownAtRest ==
    (CancelledWhileServing /\ ~ENABLED RunProgramNext) => AllStopped

\* C21: if opening the RPC listener fails, Run returns a non-nil error, and
\* in that execution no loopback dial is issued and the HTTP server never
\* starts.
C21_ListenFailureAborts ==
    Pos("rpcListenFail") # {}
        => /\ rPc = "returned" /\ rRet = "err"
           /\ rpcList = "none" /\ conn = "none" /\ http = "none"
           /\ Pos("dial") = {} /\ Pos("dialFail") = {} /\ Pos("dialUnsupported") = {}
           /\ Pos("httpListen") = {}

\* C21 witness: net.Listen failed and Run has returned the error.
C21_Witness ==
    /\ rLog = <<"rpcListenFail">>
    /\ rPc = "returned" /\ rRet = "err"

\* C22: if the HTTP server fails to listen (ListenAndServe ends with an error
\* other than ErrServerClosed), Run returns that error to its caller.
C22_HttpListenFailureReturned ==
    Pos("httpListenFail") # {} => (rPc = "returned" /\ rRet = "err")

\* C23: without a register callback, or with one that returns an error, Run
\* returns a non-nil error before the RPC listener is opened, before any dial
\* and before the HTTP server starts.
C23_RegisterFailureFirst ==
    /\ rPc = "start" => (rpcList = "none" /\ conn = "none" /\ http = "none")
    /\ (rIn.onRegister \in {"nil", "err"} /\ rPc # "start")
          => /\ rPc = "returned" /\ rRet = "err"
             /\ rpcList = "none" /\ serveG = "none" /\ conn = "none" /\ http = "none"
             /\ \A i \in 1..Len(rLog) : rLog[i] = "cancel"

\* C23 witness: Run was called without a register callback and has returned
\* an error with nothing opened.
C23_Witness ==
    /\ rIn.onRegister = "nil"
    /\ rPc = "returned" /\ rRet = "err"
    /\ rLog = <<>>

\* C24: for a transport kind other than "tcp" and "unix" dial returns an
\* error and creates no connection, and Run returns an error without
\* starting the HTTP server.
C24_BadNetworkAborts ==
    rIn.network \notin {"tcp", "unix"}
        => /\ conn = "none" /\ closerG = "none" /\ http = "none"
           /\ Pos("dial") = {} /\ Pos("httpListen") = {}
           /\ rPc \in {"start", "listen", "dial", "returned", "exited"}
           /\ Pos("dialUnsupported") # {} => (rPc = "returned" /\ rRet = "err")

\* C24 witness: the RPC listener is open, dial refused the kind "udp" and
\* Run has returned an error.
C24_Witness ==
    /\ rIn.network = "udp"
    /\ rLog = <<"rpcListen", "dialUnsupported">>
    /\ rPc = "returned" /\ rRet = "err"

\* C29: a panic recovered by the deferred function of Run is logged as fatal
\* and the process exits: Run does not return and nothing keeps serving.
C29_RecoveredPanicExits ==
    Pos("recovered") # {}
        => /\ ~procAlive
           /\ rRet = "none"
           /\ SubSeq(rLog, Len(rLog) - 1, Len(rLog)) = <<"recovered", "fatal">>
           /\ ~ENABLED RunNext

\* C29 witness: the register callback panicked, the deferred function
\* cancelled the context and the process is gone.
C29_Witness ==
    /\ rIn.onRegister = "panic"
    /\ ctxDone /\ ~procAlive
    /\ Pos("recovered") # {}

\* C32: when Run returns nil after the top-level context was cancelled, the
\* graceful shutdown of the HTTP server has completed and the loopback
\* connection has been closed.
C32_ReturnsAfterTeardown ==
    (rPc = "returned" /\ rRet = "nil" /\ topCancelled)
        => (http = "stopped" /\ conn = "closed")

\* C33: when Run has returned an error after the RPC listener was opened (a
\* failed dial, an unsupported transport kind, a failed handler
\* registration), nothing is left running: the listener is closed, its serve
\* loop has stopped and a loopback connection that was opened is closed.
\* Stated once Run's goroutines have no step left to take.
C33_ErrorReturnLeavesNothing ==
    (/\ rPc = "returned" /\ rRet = "err"
     /\ rNet.listen # NoEndpoint
     /\ ~ENABLED RunProgramNext)
        => /\ rpcList = "closed"
           /\ serveG = "stopped"
           /\ conn \in {"none", "closed"}

\* C34: for the transport kinds "tcp" and "unix" the loopback client dials
\* the transport kind and the address the RPC listener was opened on.
C34_DialsWhereListening ==
    (rIn.network \in {"tcp", "unix"} /\ rNet.dial # NoEndpoint)
        => rNet.dial = rNet.listen

\* C35: if the top-level context is cancelled while the HTTP server is
\* serving and the shutdown reports no error, Run eventually returns nil
\* (unless a fatal log call, of the shutdown or of a failing serve loop,
\* ends the process first).
C35_CancelLeadsToNil ==
    [](CancelledWhileServing
          => <>((rPc = "returned" /\ rRet = "nil") \/ Pos("fatal") # {}))

\* C35 witness: the caller cancelled while the server was listening, the
\* shutdown completed without error and Run has returned nil.
C35_Witness ==
    /\ CancelledWhileServing
    /\ http = "stopped" /\ procAlive
    /\ rPc = "returned" /\ rRet = "nil"

\* C39: in the Run that takes an optional trace exporter, with no exporter
\* configured the deferred cleanup does not panic on any return path
\* (missing register callback, listen failure, dial failure, normal
\* shutdown): Run returns and the caller has its return value.
C39_CleanupWithoutExporter ==
    rIn.exporter = "none"
        => /\ rPc # "panicked"
           /\ Pos("nilFlushPanic") = {}
           /\ (rIn.onRegister = "nil" /\ rPc \notin {"exporter", "start"})
                 => (rPc = "returned" /\ rRet = "err")

----------------------------------------------------------------------------
(* The protocol router: server.go:183-216 (grpcWrapper in front of the      *)
(* tracing wrapper and the two-handler allowCORS of handler.go:78-89) and   *)
(* handler.go:25-41 (allowCORS routing between rest and rpc itself).        *)

\* A header value is a string, modelled as a sequence of pieces.
CTPieces == {"application/", "grpc", "json"}
ContentTypes == UNION {[1..n -> CTPieces] : n \in 0..MaxCTLen}

\* "application/grpc", server.go:210 and handler.go:27
GrpcMediaType == <<"application/", "grpc">>

\* strings.Contains(s, sub)
Contains(str, sub) ==
    \E i \in 0..(Len(str) - Len(sub)) : SubSeq(str, i + 1, i + Len(sub)) = sub

\* outcome: what the handler behind the wrappers does, it returns after
\* writing its response ("ok") or it panics ("panic").
Requests ==
    [protoMajor : {1, 2}, ctype : ContentTypes, method : {"GET", "OPTIONS"},
     origin : {"", "http://o"}, acrm : {"", "GET"},
     path : {"/metrics", "/metrics/list", "/v1/echo"},
     outcome : {"ok", "panic"}]

NewOut(chain) ==
    [chain |-> chain, invoked |-> <<>>, restPath |-> FALSE,
     allowOrigin |-> "", allowHeaders |-> <<>>, allowMethods |-> <<>>,
     body |-> <<>>, panicked |-> FALSE, statusAttr |-> FALSE,
     spansStarted |-> 0, spansEnded |-> 0]

\* A handler is invoked: "rpc" (the gRPC server), "preflight", "rest" (the mux).
Invoke(out, target) == [out EXCEPT !.invoked = Append(@, target)]

\* h.ServeHTTP(w, r) on the handler behind the wrappers: it writes its
\* response and returns, or it panics.
ServeHTTP(req, out, target) ==
    IF req.outcome = "panic"
    THEN [Invoke(out, target) EXCEPT !.panicked = TRUE]
    ELSE [Invoke(out, target) EXCEPT !.body = Append(@, target)]

\* strings.Join(elems, sep): the string as the sequence of its pieces.
RECURSIVE Join(_, _)
Join(elems, sep) ==
    IF Len(elems) = 0 THEN <<>>
    ELSE IF Len(elems) = 1 THEN <<elems[1]>>
    ELSE <<elems[1], sep>> \o Join(Tail(elems), sep)

\* handler.go:94-101 (and 46-53): two header writes and a log line.
preflightHandler(out) ==
    Invoke([out EXCEPT !.allowHeaders = Join(<<"Content-Type", "Accept">>, ","),
                       !.allowMethods = Join(<<"GET", "HEAD", "POST", "PUT", "DELETE">>, ",")],
           "preflight")

\* Faulty variant: the preflight test is made outside the test of Origin.
allowCORS_PreflightWithoutOrigin(req, out) ==
    LET o1 == IF req.origin # "" THEN [out EXCEPT !.allowOrigin = req.origin] ELSE out
    IN IF req.method = "OPTIONS" /\ req.acrm # ""
       THEN preflightHandler(o1)
       ELSE ServeHTTP(req, o1, "rest")

\* Faulty variant: the return after the preflight responder (handler.go:84)
\* is missing, the request falls through to the REST handler.
allowCORS_NoReturn(req, out) ==
    IF req.origin # ""
    THEN LET o1 == [out EXCEPT !.allowOrigin = req.origin]
         IN IF req.method = "OPTIONS" /\ req.acrm # ""
            THEN ServeHTTP(req, preflightHandler(o1), "rest")
            ELSE ServeHTTP(req, o1, "rest")
    ELSE ServeHTTP(req, out, "rest")

\* handler.go:78-89: the CORS wrapper around the REST mux.
allowCORS(req, out) ==
    IF req.origin # ""
    THEN LET o1 == [out EXCEPT !.allowOrigin = req.origin]
         IN IF req.method = "OPTIONS" /\ req.acrm # ""
            THEN preflightHandler(o1)
            ELSE ServeHTTP(req, o1, "rest")
    ELSE ServeHTTP(req, out, "rest")

\* Faulty variant: span.End() of telemetry.go:154 is not deferred, it is
\* called after h.ServeHTTP returned.
tracingWrapper_NoDefer(req, out) ==
    IF req.path = "/metrics"
    THEN allowCORS(req, out)
    ELSE LET o1 == allowCORS(req, [out EXCEPT !.spansStarted = @ + 1])
         IN IF o1.panicked THEN o1
            ELSE [o1 EXCEPT !.statusAttr = TRUE, !.spansEnded = @ + 1]

\* telemetry.go:135-175: the tracing wrapper; "/metrics" is not traced. The
\* span is started before the handler runs and ended by a deferred call;
\* the status attribute (line 170) is set only if the handler returned.
tracingWrapper(req, out) ==
    IF req.path = "/metrics"
    THEN allowCORS(req, out)
    ELSE LET o1 == allowCORS(req, [out EXCEPT !.spansStarted = @ + 1])
             o2 == IF o1.panicked THEN o1 ELSE [o1 EXCEPT !.statusAttr = TRUE]
         IN [o2 EXCEPT !.spansEnded = @ + 1]

\* Faulty variant: the two conditions of server.go:210 are joined with "or".
grpcWrapper_Or(req, out) ==
    IF req.protoMajor = 2 \/ Contains(req.ctype, GrpcMediaType)
    THEN ServeHTTP(req, out, "rpc")
    ELSE tracingWrapper(req, [out EXCEPT !.restPath = TRUE])

\* server.go:208-216
grpcWrapper(req, out) ==
    IF req.protoMajor = 2 /\ Contains(req.ctype, GrpcMediaType)
    THEN ServeHTTP(req, out, "rpc")
    ELSE tracingWrapper(req, [out EXCEPT !.restPath = TRUE])

\* Faulty variant: the Origin is echoed before the request is routed.
allowCORSRouter_CorsFirst(req, out) ==
    LET o1 == IF req.origin # "" THEN [out EXCEPT !.allowOrigin = req.origin] ELSE out
    IN IF req.protoMajor = 2 /\ Contains(req.ctype, GrpcMediaType)
       THEN ServeHTTP(req, o1, "rpc")
       ELSE allowCORS(req, [o1 EXCEPT !.restPath = TRUE])

\* handler.go:25-41: allowCORS(lg, rest, rpc), routing and CORS in one.
allowCORSRouter(req, out) ==
    IF req.protoMajor = 2 /\ Contains(req.ctype, GrpcMediaType)
    THEN ServeHTTP(req, out, "rpc")
    ELSE allowCORS(req, [out EXCEPT !.restPath = TRUE])

\* The inbound request is served by the handler of server.go:183-188.
ServeGrpcWrapper ==
    /\ rtOut.chain = "none"
    /\ rtOut' = grpcWrapper(rtReq, NewOut("grpcWrapper"))
    /\ UNCHANGED <<rtReq, streamVars, runVars, registryVars, chainVars, measureVars>>

\* The inbound request is served by the handler of handler.go:25-41.
ServeAllowCORS ==
    /\ rtOut.chain = "none"
    /\ rtOut' = allowCORSRouter(rtReq, NewOut("allowCORS"))
    /\ UNCHANGED <<rtReq, streamVars, runVars, registryVars, chainVars, measureVars>>

RouterInit ==
    /\ rtReq \in Requests
    /\ rtOut = NewOut("none")
    /\ StreamIdle /\ RunIdle
    /\ RegistryIdle /\ ChainIdle /\ MeasureIdle

RouterNext == ServeGrpcWrapper \/ ServeAllowCORS

SpecRouter == RouterInit /\ [][RouterNext]_vars

----------------------------------------------------------------------------
(* Properties of the router *)

\* The content types that hold the RPC media type somewhere inside.
HoldsGrpcMediaType(ct) ==
    \E pre \in ContentTypes, post \in ContentTypes : ct = pre \o GrpcMediaType \o post

\* C10: a request is handed to the RPC server if and only if its protocol
\* major version is 2 and its Content-Type contains "application/grpc";
\* every other request is handed to the REST path.
C10_RpcIffHttp2AndGrpcType ==
    rtOut.chain # "none"
        => LET isRpc == rtReq.protoMajor = 2 /\ HoldsGrpcMediaType(rtReq.ctype)
               toRpc == \E i \in 1..Len(rtOut.invoked) : rtOut.invoked[i] = "rpc"
           IN /\ toRpc <=> isRpc
              /\ ~isRpc => (rtOut.restPath /\ Len(rtOut.invoked) = 1)
              /\ isRpc => ~rtOut.restPath

\* C10 witness: an HTTP/2 request whose Content-Type holds the media type
\* with more after it ("application/grpc+json") was handed to the RPC server.
C10_Witness ==
    /\ rtOut.chain = "grpcWrapper"
    /\ rtReq.protoMajor = 2
    /\ rtReq.ctype = <<"application/", "grpc", "json">>
    /\ rtOut.invoked = <<"rpc">>

\* C11: a REST-routed OPTIONS request with a non-empty Origin and a non-empty
\* Access-Control-Request-Method is answered by the preflight responder
\* alone: Access-Control-Allow-Origin echoes the Origin, Allow-Headers lists
\* Content-Type and Accept, Allow-Methods lists GET, HEAD, POST, PUT, DELETE,
\* no body is written and the REST handler is not invoked.
C11_PreflightAlone ==
    (/\ rtOut.chain # "none" /\ rtOut.restPath
     /\ rtReq.method = "OPTIONS" /\ rtReq.origin # "" /\ rtReq.acrm # "")
        => /\ rtOut.invoked = <<"preflight">>
           /\ rtOut.allowOrigin = rtReq.origin
           /\ rtOut.allowHeaders = <<"Content-Type", ",", "Accept">>
           /\ rtOut.allowMethods =
                  <<"GET", ",", "HEAD", ",", "POST", ",", "PUT", ",", "DELETE">>
           /\ rtOut.body = <<>>

\* C11 witness: such a preflight request went through the tracing wrapper and
\* the CORS wrapper of server.go:186 and was answered.
C11_Witness ==
    /\ rtOut.chain = "grpcWrapper" /\ rtOut.restPath
    /\ rtReq.method = "OPTIONS" /\ rtReq.origin = "http://o" /\ rtReq.acrm = "GET"
    /\ rtReq.path = "/v1/echo"
    /\ rtOut.invoked = <<"preflight">>

\* C26: requests to /metrics and to the other observability paths, such as
\* /metrics/list, pass through the tracing wrapper to their handler without
\* a span being started for them.
C26_ObservabilityPathsUntraced ==
    (/\ rtOut.chain = "grpcWrapper" /\ rtOut.restPath
     /\ rtReq.path \in {"/metrics", "/metrics/list"})
        => (rtOut.spansStarted = 0 /\ rtOut.invoked # <<>>)

\* C36: for every request exactly one of the three targets is invoked, and
\* once: the RPC server, the preflight responder or the REST handler; a
\* request routed to the RPC server has no CORS header set on its response
\* and does not pass the preflight test.
C36_OneTargetOnce ==
    rtOut.chain # "none"
        => /\ Len(rtOut.invoked) = 1
           /\ rtOut.invoked[1] \in {"rpc", "preflight", "rest"}
           /\ rtOut.invoked = <<"rpc">>
                 => /\ ~rtOut.restPath
                    /\ rtOut.allowOrigin = ""
                    /\ rtOut.allowHeaders = <<>>
                    /\ rtOut.allowMethods = <<>>

\* C36 witness: an HTTP/2 gRPC request that looks like a preflight (OPTIONS,
\* Origin, Access-Control-Request-Method) went to the RPC server of
\* handler.go:28 with no CORS header.
C36_Witness ==
    /\ rtOut.chain = "allowCORS"
    /\ rtReq.protoMajor = 2 /\ rtReq.ctype = GrpcMediaType
    /\ rtReq.method = "OPTIONS" /\ rtReq.origin = "http://o" /\ rtReq.acrm = "GET"
    /\ rtOut.invoked = <<"rpc">>
    /\ rtOut.allowOrigin = ""

\* The request is a preflight: OPTIONS with Origin and
\* Access-Control-Request-Method.
IsPreflight(req) == req.method = "OPTIONS" /\ req.origin # "" /\ req.acrm # ""

\* C37: a REST-routed request that is not a preflight is forwarded to the
\* REST handler; with a non-empty Origin Access-Control-Allow-Origin is set
\* to it, without an Origin no CORS header is set, also for an OPTIONS
\* request that carries Access-Control-Request-Method.
C37_NonPreflightForwarded ==
    (rtOut.chain # "none" /\ rtOut.restPath /\ ~IsPreflight(rtReq))
        => /\ rtOut.invoked = <<"rest">>
           /\ rtOut.allowOrigin = rtReq.origin
           /\ rtOut.allowHeaders = <<>>
           /\ rtOut.allowMethods = <<>>

\* C37 witness: an OPTIONS request with Access-Control-Request-Method and no
\* Origin reached the REST handler with no CORS header.
C37_Witness ==
    /\ rtOut.chain = "allowCORS" /\ rtOut.restPath
    /\ rtReq.method = "OPTIONS" /\ rtReq.origin = "" /\ rtReq.acrm = "GET"
    /\ rtOut.invoked = <<"rest">>
    /\ rtOut.allowOrigin = "" /\ rtOut.allowHeaders = <<>>

----------------------------------------------------------------------------
(* The metric registry: RegistryHandler of the drudge package, and the      *)
(* package-level registry of telemetry/registry.go and                      *)
(* telemetry/telemetry.go:149-193, which has the same code.                 *)
(* Goroutines call Int64Measure / Float64Measure; another goroutine serves  *)
(* the introspection handler. The existence check and the handler read the  *)
(* map without the lock; only put takes it.                                 *)

\* A put is between its Lock and its Unlock: the map is being mutated.
Writing == \E g \in Goroutines : reg[g].pc = "writing"

\* The registration calls made so far, by all goroutines.
TotalCalls == reg["g1"].calls + reg["g2"].calls

\* stats.Int64(name, ...) / stats.Float64(name, ...): a new measure value
\* for every call.
NewMeasure(kind, name, g) == [kind |-> kind, name |-> name, call |-> <<g, reg[g].calls + 1>>]

\* RegistryHandler.exists: the comma-ok read of the map. It takes no lock. A
\* read that overlaps a put is a data race: it may see the map before or
\* after the mutation.
exists(key) ==
    IF Writing THEN BOOLEAN ELSE {key \in DOMAIN metrics.entries}

\* Faulty variant: registration goes on after the duplicate was found.
RegCheck_NoFatal(g, name, kind) ==
    /\ regExit = "none"
    /\ reg[g].pc = "idle"
    /\ TotalCalls < MaxCalls
    /\ \E found \in exists(name) :
          /\ reg' = [reg EXCEPT ![g].pc = "put",
                                ![g].cur = [name |-> name, inst |-> NewMeasure(kind, name, g)],
                                ![g].calls = @ + 1]
          /\ regExit' = regExit
    /\ regHist' = [regHist EXCEPT !.overlapped =
                      @ \/ \E h \in Goroutines \ {g} : reg[h].pc # "idle"]
    /\ UNCHANGED <<metrics, mu, lst>>
    /\ UNCHANGED <<streamVars, runVars, routerVars, chainVars, measureVars>>

\* Int64Measure / Float64Measure up to the call of put (part_000:50-66,
\* 74-90): the existence check, Fatal on a duplicate, the new measure and
\* its view (the error of view.Register is dropped).
RegCheck(g, name, kind) ==
    /\ regExit = "none"
    /\ reg[g].pc = "idle"
    /\ TotalCalls < MaxCalls
    /\ \E found \in exists(name) :
          IF found
          THEN /\ regExit' = "duplicate"
               /\ reg' = [reg EXCEPT ![g].pc = "fatal",
                                     ![g].cur = [name |-> name,
                                                 inst |-> NewMeasure(kind, name, g)],
                                     ![g].calls = @ + 1]
          ELSE /\ regExit' = regExit
               /\ reg' = [reg EXCEPT ![g].pc = "put",
                                     ![g].cur = [name |-> name,
                                                 inst |-> NewMeasure(kind, name, g)],
                                     ![g].calls = @ + 1]
    /\ regHist' = [regHist EXCEPT !.overlapped =
                      @ \/ \E h \in Goroutines \ {g} : reg[h].pc # "idle"]
    /\ UNCHANGED <<metrics, mu, lst>>
    /\ UNCHANGED <<streamVars, runVars, routerVars, chainVars, measureVars>>

\* The Go runtime detects a map read that overlaps a map write and throws
\* "concurrent map read and map write": the process dies.
RegCheckRace(g) ==
    /\ regExit = "none"
    /\ reg[g].pc = "idle"
    /\ TotalCalls < MaxCalls
    /\ Writing
    /\ regExit' = "mapRace"
    /\ UNCHANGED <<metrics, mu, reg, lst, regHist>>
    /\ UNCHANGED <<streamVars, runVars, routerVars, chainVars, measureVars>>

\* put, part_000:113: r.Lock().
PutLock(g) ==
    /\ regExit = "none"
    /\ reg[g].pc = "put"
    /\ mu = "free"
    /\ mu' = g
    /\ reg' = [reg EXCEPT ![g].pc = "writing"]
    /\ UNCHANGED <<metrics, lst, regExit, regHist>>
    /\ UNCHANGED <<streamVars, runVars, routerVars, chainVars, measureVars>>

\* Faulty variant: the assignment replaces the map by one with a single key.
Stored_Replace(key, m) ==
    [isNil |-> FALSE, entries |-> [n \in {key} |-> m]]

\* The map with key set to m, allocated first if it is nil (part_000:114-118).
Stored(key, m) ==
    [isNil |-> FALSE,
     entries |-> [n \in DOMAIN metrics.entries \cup {key} |->
                     IF n = key THEN m ELSE metrics.entries[n]]]

\* put, part_000:114-119: the map assignment and r.Unlock(); then the
\* registration returns the measure (part_000:69).
PutUnlock(g) ==
    /\ regExit = "none"
    /\ reg[g].pc = "writing"
    /\ metrics' = Stored(reg[g].cur.name, reg[g].cur.inst)
    /\ mu' = "free"
    /\ reg' = [reg EXCEPT ![g].pc = "idle", ![g].ret = @ \cup {reg[g].cur}]
    /\ regHist' = [regHist EXCEPT !.stores[reg[g].cur.name] = @ + 1]
    /\ UNCHANGED <<lst, regExit>>
    /\ UNCHANGED <<streamVars, runVars, routerVars, chainVars, measureVars>>

\* json.NewEncoder(w).Encode(r.metrics): a nil map is "null"; a measure is a
\* struct without exported fields and encodes as "{}".
Encode(m) ==
    IF m.isNil THEN "null" ELSE [n \in DOMAIN m.entries |-> "{}"]

\* ServeHTTP, part_000:96-97: the encoder starts to walk the map. No lock.
ListBegin ==
    /\ regExit = "none"
    /\ lst.pc = "idle"
    /\ lst' = [lst EXCEPT !.pc = "encoding", !.snap = metrics.entries]
    /\ UNCHANGED <<metrics, mu, reg, regExit, regHist>>
    /\ UNCHANGED <<streamVars, runVars, routerVars, chainVars, measureVars>>

\* ServeHTTP, part_000:97-101: the encoder is done. A walk that overlapped a
\* put saw the map before or after it, or the runtime threw.
ListEnd ==
    /\ regExit = "none"
    /\ lst.pc = "encoding"
    /\ \/ /\ \E seen \in {lst.snap, metrics.entries} :
                lst' = [lst EXCEPT !.pc = "idle",
                                   !.out = Encode([isNil |-> metrics.isNil, entries |-> seen])]
          /\ regExit' = regExit
       \/ /\ (Writing \/ lst.snap # metrics.entries)
          /\ regExit' = "mapRace"
          /\ lst' = lst
    /\ UNCHANGED <<metrics, mu, reg, regHist>>
    /\ UNCHANGED <<streamVars, runVars, routerVars, chainVars, measureVars>>

RegistryInit ==
    /\ RegistryIdle
    /\ StreamIdle /\ RunIdle /\ RouterIdle /\ ChainIdle /\ MeasureIdle

RegistryNext ==
    \/ \E g \in Goroutines, name \in Names, kind \in Kinds : RegCheck(g, name, kind)
    \/ \E g \in Goroutines : RegCheckRace(g) \/ PutLock(g) \/ PutUnlock(g)
    \/ ListBegin
    \/ ListEnd

SpecRegistry == RegistryInit /\ [][RegistryNext]_vars

----------------------------------------------------------------------------
(* Properties of the metric registry *)

\* What the registration calls so far have returned.
Returned == UNION {reg[g].ret : g \in Goroutines}

\* C12: a registration under a name that is already in the registry raises
\* the fatal error and leaves the entry as it is; after any sequence of
\* registration calls (one after the other) no name was stored twice.
C12_DuplicateIsFatal ==
    /\ [](~regHist.overlapped => \A n \in Names : regHist.stores[n] <= 1)
    /\ [][\A g \in Goroutines :
            (/\ reg[g].pc = "idle" /\ reg'[g].pc # "idle"
             /\ ~Writing
             /\ reg'[g].cur.name \in DOMAIN metrics.entries)
                => (regExit' = "duplicate" /\ metrics' = metrics)]_vars

\* C12 witness: "m1" was registered as an int64 measure, a later call
\* registered "m1" again as a float64 measure and the process exited with the
\* first entry still in place.
C12_Witness ==
    /\ ~regHist.overlapped
    /\ regExit = "duplicate"
    /\ "m1" \in DOMAIN metrics.entries
    /\ metrics.entries["m1"].kind = "int64"
    /\ \E g \in Goroutines :
          reg[g].pc = "fatal" /\ reg[g].cur.name = "m1" /\ reg[g].cur.inst.kind = "float64"

\* C13: name uniqueness holds under concurrency: when two goroutines register
\* the same name concurrently, at most one of them stores an entry under it
\* (the other raises the fatal duplicate-name error).
C13_AtMostOneStores ==
    \A n \in Names : regHist.stores[n] <= 1

\* C14: every read of the backing map happens under the lock that guards the
\* mutations, so the introspection handler never walks the map while a put is
\* between its Lock and its Unlock.
C14_NoReadOverlapsPut ==
    ~(Writing /\ lst.pc = "encoding")

\* The successful registrations so far have pairwise distinct names.
DistinctNames == \A c \in Returned, d \in Returned : c.name = d.name => c = d

\* C15: after successful registrations with pairwise distinct names the
\* registry maps exactly those names, each to the measure its registration
\* returned, and a listing taken now has exactly those names.
C15_ListingIsExact ==
    (/\ regExit = "none"
     /\ \A g \in Goroutines : reg[g].pc = "idle"
     /\ DistinctNames)
        => /\ metrics.entries =
                 [n \in {c.name : c \in Returned} |->
                     (CHOOSE c \in Returned : c.name = n).inst]
           /\ Returned # {} => DOMAIN Encode(metrics) = {c.name : c \in Returned}

\* C15 witness: two goroutines registered "m1" and "m2", their calls
\* overlapped, both returned and the map has two entries.
C15_Witness ==
    /\ regExit = "none"
    /\ regHist.overlapped
    /\ \A g \in Goroutines : reg[g].pc = "idle"
    /\ DistinctNames
    /\ {c.name : c \in Returned} = {"m1", "m2"}
    /\ Cardinality(DOMAIN metrics.entries) = 2

----------------------------------------------------------------------------
(* The interceptor chain of the RPC server: grpc.NewServer in Run           *)
(* (server.go:108-124, and the earlier revision at server.go:316-332), and  *)
(* the tracing interceptors of telemetry.go:23-79 installed as a server's   *)
(* only interceptor. One RPC runs through the chain: every interceptor runs *)
(* its pre-call logic and calls the next one, the innermost call is the     *)
(* handler, and the calls return in reverse.                                *)

\* The chain the server options install for calls of the given kind.
\*   "v1": server.go:108-124; "v2": server.go:316-332;
\*   "telemetry": UnaryServerInterceptor / StreamServerInterceptor of
\*   telemetry.go as the only interceptor.
InstalledChain(rev, kind) ==
    IF rev = "telemetry" THEN <<"drudge.middleware">>
    ELSE IF rev = "v1" /\ kind = "unary"
         THEN <<"validator", "ctxtags", "zap", "prometheus">>
         ELSE <<"validator", "opentracing", "ctxtags", "zap", "prometheus">>

\* server.go:109-110: grpc.UnaryInterceptor is given opts.UnaryServerInterceptor
\* and then, inside WithUnaryServerChain, the chain. grpc panics when the
\* unary interceptor is set while one is set already.
NewServerPanics(in) == in.rev = "v1" /\ in.supplied

\* telemetry.go:77: the stream handler is called as handler(ctx, ss), the
\* context in the place of the service implementation. The handler of a
\* registered service method asserts the service type of that argument
\* (usesSrv) and panics; a handler that ignores it runs as usual.
SrvPanics(in) == in.rev = "telemetry" /\ in.kind = "stream" /\ in.usesSrv

\* grpc_zap.DefaultCodeToLevel of go-grpc-middleware, called at logger.go:24.
DefaultCodeToLevel(code) ==
    CASE code = 0  -> "info"    \* OK
      [] code = 1  -> "info"    \* Canceled
      [] code = 2  -> "error"   \* Unknown
      [] code = 3  -> "info"    \* InvalidArgument
      [] code = 4  -> "warn"    \* DeadlineExceeded
      [] code = 5  -> "info"    \* NotFound
      [] code = 6  -> "info"    \* AlreadyExists
      [] code = 7  -> "warn"    \* PermissionDenied
      [] code = 8  -> "warn"    \* ResourceExhausted
      [] code = 9  -> "warn"    \* FailedPrecondition
      [] code = 10 -> "warn"    \* Aborted
      [] code = 11 -> "warn"    \* OutOfRange
      [] code = 12 -> "error"   \* Unimplemented
      [] code = 13 -> "error"   \* Internal
      [] code = 14 -> "warn"    \* Unavailable
      [] code = 15 -> "error"   \* DataLoss
      [] code = 16 -> "info"    \* Unauthenticated
      [] OTHER     -> "error"

\* Faulty variant: OK is not special.
codeToLevel_Default(code) == DefaultCodeToLevel(code)

\* logger.go:19-25
codeToLevel(code) ==
    IF code = 0 THEN "debug" ELSE DefaultCodeToLevel(code)

\* The code the zap interceptor derives from what the call returned
\* (status.Code: OK for a nil error), passed to codeToLevel through
\* grpc_zap.WithLevels, server.go:113,120.
ErrorToCode(in, ret) == IF ret = "ok" THEN 0 ELSE in.code

\* The service value and the server stream the innermost interceptor hands
\* to a streaming handler: telemetry.go:77 calls handler(ctx, ss), the
\* interceptors of the chains of server.go:116-122 call handler(srv, stream).
HandlerArgs(in) ==
    IF in.kind = "unary" THEN [srv |-> "none", ss |-> "none"]
    ELSE IF in.rev = "telemetry" THEN [srv |-> "ctx", ss |-> "ss"]
    ELSE [srv |-> "srv", ss |-> "ss"]

HandlerOutcome(in) ==
    IF SrvPanics(in) THEN "panic" ELSE in.outcome

ChainEv(ev, by) == [ev |-> ev, by |-> by]

\* grpc.NewServer(...), server.go:108-124.
ChainBuild ==
    /\ chPc = "idle"
    /\ IF NewServerPanics(chIn)
       THEN chPc' = "crashed" /\ chRet' = "panic"
       ELSE chPc' = "pre" /\ chRet' = chRet
    /\ UNCHANGED <<chIn, chStack, chLog, chSent, chSpans, chLevel, chArgs>>
    /\ UNCHANGED <<streamVars, runVars, routerVars, registryVars, measureVars>>

\* Faulty variant: the chain goes on after an interceptor returned an error.
ChainPre_NoShortCircuit ==
    /\ chPc = "pre"
    /\ Len(chStack) < Len(InstalledChain(chIn.rev, chIn.kind))
    /\ LET name == InstalledChain(chIn.rev, chIn.kind)[Len(chStack) + 1]
       IN /\ chLog' = Append(chLog, ChainEv("pre", name))
          /\ chSpans' = IF name = "drudge.middleware"
                        THEN [chSpans EXCEPT !.started = @ + 1] ELSE chSpans
          /\ chStack' = Append(chStack, name)
          /\ chRet' = IF name = "validator" /\ ~chIn.valid THEN "InvalidArgument" ELSE chRet
          /\ chPc' = chPc
    /\ UNCHANGED <<chIn, chSent, chLevel, chArgs>>
    /\ UNCHANGED <<streamVars, runVars, routerVars, registryVars, measureVars>>

\* The next interceptor of the chain runs its pre-call logic: the validator
\* returns InvalidArgument for a request that does not validate and calls
\* nothing; telemetry.go:26-46 starts the span and defers its end; every
\* other interceptor calls the next one.
ChainPre ==
    /\ chPc = "pre"
    /\ Len(chStack) < Len(InstalledChain(chIn.rev, chIn.kind))
    /\ LET name == InstalledChain(chIn.rev, chIn.kind)[Len(chStack) + 1]
       IN /\ chLog' = Append(chLog, ChainEv("pre", name))
          /\ chSpans' = IF name = "drudge.middleware"
                        THEN [chSpans EXCEPT !.started = @ + 1] ELSE chSpans
          /\ IF name = "validator" /\ ~chIn.valid
             THEN /\ chRet' = "InvalidArgument"
                  /\ chPc' = "post"
                  /\ chStack' = chStack
             ELSE /\ chRet' = chRet
                  /\ chPc' = chPc
                  /\ chStack' = Append(chStack, name)
    /\ UNCHANGED <<chIn, chSent, chLevel, chArgs>>
    /\ UNCHANGED <<streamVars, runVars, routerVars, registryVars, measureVars>>

\* The innermost call: the handler of the RPC method.
ChainHandlerEnter ==
    /\ chPc = "pre"
    /\ Len(chStack) = Len(InstalledChain(chIn.rev, chIn.kind))
    /\ chLog' = Append(chLog, ChainEv("handler", chIn.kind))
    /\ chPc' = "handler"
    /\ chArgs' = HandlerArgs(chIn)
    /\ UNCHANGED <<chIn, chStack, chSent, chSpans, chRet, chLevel>>
    /\ UNCHANGED <<streamVars, runVars, routerVars, registryVars, measureVars>>

\* A streaming handler sends one more message on its stream.
ChainHandlerSend ==
    /\ chPc = "handler"
    /\ chIn.kind = "stream"
    /\ ~SrvPanics(chIn)
    /\ chSent < chIn.msgs
    /\ chSent' = chSent + 1
    /\ chLog' = Append(chLog, ChainEv("send", chIn.kind))
    /\ UNCHANGED <<chIn, chPc, chStack, chSpans, chRet, chLevel, chArgs>>
    /\ UNCHANGED <<streamVars, runVars, routerVars, registryVars, measureVars>>

\* The handler returns a response, returns an error, or panics.
ChainHandlerReturn ==
    /\ chPc = "handler"
    /\ (chIn.kind = "stream" /\ ~SrvPanics(chIn)) => chSent = chIn.msgs
    /\ chRet' = HandlerOutcome(chIn)
    /\ chPc' = "post"
    /\ UNCHANGED <<chIn, chStack, chLog, chSent, chSpans, chLevel, chArgs>>
    /\ UNCHANGED <<streamVars, runVars, routerVars, registryVars, measureVars>>

\* Faulty variant: the interceptors resume in the order they were entered.
ChainPost_Fifo ==
    /\ chPc = "post"
    /\ chStack # <<>>
    /\ LET name == Head(chStack)
       IN /\ chStack' = Tail(chStack)
          /\ chSpans' = IF name = "drudge.middleware"
                        THEN [chSpans EXCEPT !.ended = @ + 1] ELSE chSpans
          /\ chLog' = IF chRet = "panic" THEN chLog
                      ELSE Append(chLog, ChainEv("post", name))
          /\ chLevel' = IF name = "zap" /\ chRet # "panic"
                        THEN codeToLevel(ErrorToCode(chIn, chRet)) ELSE chLevel
    /\ UNCHANGED <<chIn, chPc, chSent, chRet, chArgs>>
    /\ UNCHANGED <<streamVars, runVars, routerVars, registryVars, measureVars>>

\* The call returns to the innermost interceptor still waiting: it runs its
\* post-call logic and returns what it got. When the handler panicked the
\* stack unwinds and only deferred calls run: span.End() of telemetry.go:46,75.
ChainPost ==
    /\ chPc = "post"
    /\ chStack # <<>>
    /\ LET name == chStack[Len(chStack)]
       IN /\ chStack' = SubSeq(chStack, 1, Len(chStack) - 1)
          /\ chSpans' = IF name = "drudge.middleware"
                        THEN [chSpans EXCEPT !.ended = @ + 1] ELSE chSpans
          /\ chLog' = IF chRet = "panic" THEN chLog
                      ELSE Append(chLog, ChainEv("post", name))
          /\ chLevel' = IF name = "zap" /\ chRet # "panic"
                        THEN codeToLevel(ErrorToCode(chIn, chRet)) ELSE chLevel
    /\ UNCHANGED <<chIn, chPc, chSent, chRet, chArgs>>
    /\ UNCHANGED <<streamVars, runVars, routerVars, registryVars, measureVars>>

\* The outermost interceptor has returned: the caller gets the result. A
\* panic that left the chain ends the process, the server recovers nothing.
ChainReturn ==
    /\ chPc = "post"
    /\ chStack = <<>>
    /\ chPc' = IF chRet = "panic" THEN "crashed" ELSE "returned"
    /\ UNCHANGED <<chIn, chStack, chLog, chSent, chSpans, chRet, chLevel, chArgs>>
    /\ UNCHANGED <<streamVars, runVars, routerVars, registryVars, measureVars>>

\* The HTTP requests served next to the RPC: REST requests, traced or not.
TracedRequests ==
    {r \in Requests : /\ r.protoMajor = 1 /\ r.ctype = <<>> /\ r.method = "GET"
                      /\ r.origin = "" /\ r.acrm = ""}

ChainInit ==
    /\ chIn \in {in \in [rev : {"v1", "v2", "telemetry"}, kind : {"unary", "stream"},
                          supplied : BOOLEAN, usesSrv : BOOLEAN, valid : BOOLEAN,
                          outcome : {"ok", "err", "panic"}, code : {0} \cup Codes,
                          msgs : 0..MaxSent] :
                     in.outcome = "err" <=> in.code # 0}
    /\ chPc = "idle"
    /\ chStack = <<>>
    /\ chLog = <<>>
    /\ chSent = 0
    /\ chSpans = [started |-> 0, ended |-> 0]
    /\ chRet = "none"
    /\ chLevel = "none"
    /\ chArgs = [srv |-> "none", ss |-> "none"]
    /\ rtReq \in TracedRequests
    /\ rtOut = NewOut("none")
    /\ StreamIdle /\ RunIdle /\ RegistryIdle /\ MeasureIdle

ChainNext ==
    \/ ChainBuild \/ ChainPre \/ ChainHandlerEnter \/ ChainHandlerSend
    \/ ChainHandlerReturn \/ ChainPost \/ ChainReturn
    \/ ServeGrpcWrapper

SpecChain == ChainInit /\ [][ChainNext]_vars

----------------------------------------------------------------------------
(* Properties of the interceptor chain *)

IsPrefix(a, b) == Len(a) <= Len(b) /\ SubSeq(b, 1, Len(a)) = a

\* The events of a call that passes the validator and whose handler returns:
\* the pre-call logic in chain order, the handler and what it sends, the
\* post-call logic in reverse chain order.
ExpectedLog ==
    LET chain == InstalledChain(chIn.rev, chIn.kind)
        n == Len(chain)
        k == IF chIn.kind = "stream" THEN chIn.msgs ELSE 0
    IN [i \in 1..n |-> ChainEv("pre", chain[i])]
       \o <<ChainEv("handler", chIn.kind)>>
       \o [i \in 1..k |-> ChainEv("send", chIn.kind)]
       \o [i \in 1..n |-> ChainEv("post", chain[n + 1 - i])]

\* C17: within one RPC through the installed chain the pre-call logic runs in
\* the configured order, position 0 first, before the handler, and the
\* post-call logic runs in the exact reverse order after the handler.
C17_PreInOrderPostReversed ==
    (/\ chPc \notin {"idle", "crashed"}
     /\ chIn.valid
     /\ HandlerOutcome(chIn) # "panic")
        => /\ IsPrefix(chLog, ExpectedLog)
           /\ chPc = "returned" => chLog = ExpectedLog

\* C17 witness: a streaming call of two messages ran through the five
\* interceptors of server.go:116-122, its handler returned an error and the
\* call has returned.
C17_Witness ==
    /\ chPc = "returned"
    /\ chIn.rev = "v1" /\ chIn.kind = "stream" /\ chIn.valid
    /\ chIn.msgs = 2 /\ chRet = "err"
    /\ Len(chLog) = 13
    /\ chLog[1] = ChainEv("pre", "validator")
    /\ chLog[13] = ChainEv("post", "validator")

C19_DefaultChains ==
    (/\ chPc = "handler"
     /\ ~chIn.supplied
     /\ chIn.rev \in {"v1", "v2"})
        => chStack = <<"validator", "opentracing", "ctxtags", "zap", "prometheus">>

\* C20: a span started by the tracing interceptors of telemetry.go or by the
\* HTTP tracing wrapper is ended exactly once when the wrapped handler has
\* returned, whether it returned a result, an error or panicked; it is not
\* ended while the handler runs, and a stream has one span however many
\* messages it sends.
C20_SpanEndedOnce ==
    /\ chSpans.started <= 1 /\ chSpans.ended <= chSpans.started
    /\ (chIn.rev = "telemetry" /\ chPc = "handler")
          => (chSpans.started = 1 /\ chSpans.ended = 0)
    /\ (chIn.rev = "telemetry" /\ chPc \in {"returned", "crashed"})
          => (chSpans.started = 1 /\ chSpans.ended = 1)
    /\ rtOut.chain # "none"
          => /\ rtOut.spansEnded = rtOut.spansStarted
             /\ rtReq.path # "/metrics" => rtOut.spansStarted = 1

\* C20 witness: a stream of two messages behind StreamServerInterceptor ended
\* with a panic of its handler, and a REST request behind the tracing wrapper
\* ended with a panic of the mux; both spans are ended.
C20_Witness ==
    /\ chIn.rev = "telemetry" /\ chIn.kind = "stream" /\ ~chIn.usesSrv
    /\ chSent = 2 /\ chRet = "panic" /\ chPc = "crashed"
    /\ chSpans = [started |-> 1, ended |-> 1]
    /\ rtOut.chain = "grpcWrapper" /\ rtReq.path = "/v1/echo" /\ rtOut.panicked
    /\ rtOut.spansStarted = 1 /\ rtOut.spansEnded = 1

\* C27: codeToLevel gives the debug level to status OK and to every other
\* status code exactly the level of the library's default mapping: the level
\* at which the zap interceptor logged a finished call is debug when the call
\* returned no error, and DefaultCodeToLevel of the error's code otherwise.
C27_OkIsDebugElseDefault ==
    /\ codeToLevel(0) = "debug"
    /\ \A c \in Codes : codeToLevel(c) = DefaultCodeToLevel(c)
    /\ chLevel # "none"
          => /\ chRet = "ok" => chLevel = "debug"
             /\ chRet = "err" => chLevel = DefaultCodeToLevel(chIn.code)

\* The handler calls in the log of the invocation.
HandlerCalls == {i \in 1..Len(chLog) : chLog[i].ev = "handler"}

\* C40: the streaming tracing interceptor of telemetry.go calls the wrapped
\* handler exactly once, with the service value and the server stream it
\* received, and returns the handler's error unchanged.
C40_StreamInterceptorTransparent ==
    (/\ chIn.rev = "telemetry" /\ chIn.kind = "stream"
     /\ chPc \in {"handler", "post", "returned", "crashed"})
        => /\ Cardinality(HandlerCalls) = 1
           /\ chArgs = [srv |-> "srv", ss |-> "ss"]
           /\ chPc = "returned" => chRet = chIn.outcome

\* C27 witness: a unary call that returned no error went through the zap
\* interceptor of server.go:113 and was logged at debug.
C27_Witness ==
    /\ chPc = "returned" /\ chIn.rev = "v1" /\ chIn.kind = "unary"
    /\ chRet = "ok" /\ chLevel = "debug"

----------------------------------------------------------------------------
(* MeasureInt and MeasureFloat, unnamed/part_000:16-40 and                  *)
(* telemetry/telemetry.go:121-145: one measurement handed to OpenCensus.    *)
(* A tag mutator is "valid" or "invalid" (a key or a value tag.New          *)
(* refuses: empty or too long, or not printable ASCII).                     *)

TagMutators == {"valid", "invalid"}

TagSeqs == UNION {[1..n -> TagMutators] : n \in 0..MaxTags}

Values == {0, 1}

\* m.M(v): the measurement of the value, for the measure of the given kind.
M(kind, v, tags) == [kind |-> kind, v |-> v, tags |-> tags]

\* stats.Record(ctx, m.M(v)): the recorder receives the measurement with the
\* tags of the context, here none.
Record(rec, kind, v) == Append(rec, M(kind, v, <<>>))

\* stats.RecordWithTags(ctx, tags, m.M(v)): tag.New applies the mutators to
\* the context's tags and fails on the first it refuses; the function then
\* returns the error and records nothing.
RecordWithTags(rec, kind, v, tags) ==
    IF \E i \in 1..Len(tags) : tags[i] = "invalid"
    THEN rec
    ELSE Append(rec, M(kind, v, tags))

\* The body the two functions share, part_000:17-27 and 30-40: the error of
\* RecordWithTags is assigned to the blank identifier.
Measure(rec, kind, handle, v, tags) ==
    IF handle = "nil"
    THEN rec
    ELSE IF Len(tags) = 0
         THEN Record(rec, kind, v)
         ELSE RecordWithTags(rec, kind, v, tags)

\* part_000:16-27
MeasureInt ==
    /\ msCalls < MaxMeasures
    /\ \E handle \in {"nil", "set"}, v \in Values, tags \in TagSeqs :
          /\ recorded' = Measure(recorded, "int64", handle, v, tags)
          /\ msLast' = [kind |-> "int64", handle |-> handle, v |-> v,
                        tags |-> tags, before |-> Len(recorded)]
    /\ msCalls' = msCalls + 1
    /\ UNCHANGED <<streamVars, runVars, routerVars, registryVars, chainVars>>

\* part_000:29-40
MeasureFloat ==
    /\ msCalls < MaxMeasures
    /\ \E handle \in {"nil", "set"}, v \in Values, tags \in TagSeqs :
          /\ recorded' = Measure(recorded, "float64", handle, v, tags)
          /\ msLast' = [kind |-> "float64", handle |-> handle, v |-> v,
                        tags |-> tags, before |-> Len(recorded)]
    /\ msCalls' = msCalls + 1
    /\ UNCHANGED <<streamVars, runVars, routerVars, registryVars, chainVars>>

MeasureInit ==
    /\ MeasureIdle
    /\ StreamIdle /\ RunIdle /\ RouterIdle /\ RegistryIdle /\ ChainIdle

MeasureNext == MeasureInt \/ MeasureFloat

SpecMeasure == MeasureInit /\ [][MeasureNext]_vars

\* C28: MeasureInt and MeasureFloat record nothing when the handle is nil;
\* with a non-nil handle a call records exactly one measurement, with the
\* tags supplied when there is at least one and without tags otherwise.
C28_OneMeasurementPerCall ==
    msCalls > 0 =>
        IF msLast.handle = "nil"
        THEN Len(recorded) = msLast.before
        ELSE /\ Len(recorded) = msLast.before + 1
             /\ recorded[Len(recorded)] = M(msLast.kind, msLast.v, msLast.tags)

\* What does hold: a nil handle records nothing, a call without tags or with
\* tags tag.New accepts records one measurement.
MeasureValidTagsRecorded ==
    (msCalls > 0 /\ \A i \in 1..Len(msLast.tags) : msLast.tags[i] = "valid") =>
        IF msLast.handle = "nil"
        THEN Len(recorded) = msLast.before
        ELSE /\ Len(recorded) = msLast.before + 1
             /\ recorded[Len(recorded)] = M(msLast.kind, msLast.v, msLast.tags)
====
